---- MODULE Spec2Model ----
(***************************************************************************)
(* Transport / protocol layer of the OBD-II diagnostic core.               *)
(*                                                                         *)
(*   Spec       the PassThru adapter (j2534_interface.c) and the OBD       *)
(*              session built on it (system_diagnostics.c): negotiation,   *)
(*              request engine, status query, direct connect/disconnect.   *)
(*   SpecIsoTp  the ISO-TP segmentation of can_iso_tp_send, applied to     *)
(*              payloads drawn from a bounded family.                      *)
(*                                                                         *)
(* The native PassThru library is the environment: the result of each      *)
(* native call and the channel id it hands out are chosen                  *)
(* nondeterministically by the action that models the calling handler.     *)
(***************************************************************************)
EXTENDS Integers, Sequences, FiniteSets, TLC

(* ------------------------------ bounds --------------------------------- *)
\* channel ids the native layer may hand out: 0 .. MaxChannelId
MaxChannelId == 2
\* PassThruOpen calls that are not matched by a close (never closed by the code)
MaxDevices == 2
\* number of leading connect attempts the adapter may refuse in one request
MaxConnFails == 3

(* ------------------------- program constants --------------------------- *)
NULL == 0
J2534_PROTOCOL_CAN == 5
J2534_PROTOCOL_ISO9141 == 3
PROTOCOL_ISO_15765_4 == 6
J2534_STATUS_NOERROR == 0
J2534_ERR_INVALID_CHANNEL_ID == 2
J2534_ERR_TIMEOUT == 5
CAN_BAUDRATE == 500000
ISO9141_BAUDRATE == 10400
DEFAULT_RETRY_COUNT == 3

VARIABLES
    obd_state,        \* static struct obd_state of the OBD session
    current_health,   \* static SystemHealth (protocol_status)
    j2534_handle,     \* library handle: NULL or loaded
    current_channel,  \* channel the adapter believes is open (0 = none)
    native_channels,  \* channels really open in the native layer
    native_devices,   \* devices opened by PassThruOpen and not closed
    last,             \* the handler that ran last: its inputs and its results
    tp_state,         \* "idle", or "returned" after a can_iso_tp_send call
    tp_id,            \* arbitration id given to can_iso_tp_send
    tp_data,          \* payload given to can_iso_tp_send
    tp_frames,        \* frames written by can_send_frame, in order
    tp_calls,         \* calls of can_send_frame made
    tp_ret,           \* value returned by can_iso_tp_send
    dtc,              \* the DTC handler that ran last: its inputs and results
    proto,            \* KWP2000 / J1850 framing: the last call and the last request
    sct,              \* the SCT handler that ran last: its inputs and results
    monitor_state,    \* static struct monitor_state of the real-time monitor
    mon,              \* the monitor call that ran last, and the rounds run
    log_buffer,       \* a LogBuffer of the logging client
    lg,               \* the log call that ran last, and the entries written
    collector,        \* the monitoring task inside monitor_collect_data
    latest            \* the monitor_get_latest call that ran last

sessVars == <<obd_state, current_health, j2534_handle, current_channel,
              native_channels, native_devices, last>>
tpVars == <<tp_state, tp_id, tp_data, tp_frames, tp_calls, tp_ret>>
auxVars == <<dtc, proto, sct>>
monVars == <<monitor_state, mon>>
extVars == <<log_buffer, lg, collector, latest>>
vars == <<obd_state, current_health, j2534_handle, current_channel,
          native_channels, native_devices, last,
          tp_state, tp_id, tp_data, tp_frames, tp_calls, tp_ret,
          dtc, proto, sct, monitor_state, mon,
          log_buffer, lg, collector, latest>>

ChannelIds == 0..MaxChannelId

\* the adapter-side variables as one value, for the operators below
Adapter == [j2534_handle |-> j2534_handle, current_channel |-> current_channel,
            native_channels |-> native_channels, native_devices |-> native_devices]

(* --------------------------- native layer ------------------------------ *)
\* PassThruDisconnect: closes an open channel unless it reports a failure
PassThruDisconnect(channels, ChannelID, res) ==
    IF ChannelID \notin channels
    THEN [channels |-> channels, result |-> J2534_ERR_INVALID_CHANNEL_ID]
    ELSE IF res = J2534_STATUS_NOERROR
         THEN [channels |-> channels \ {ChannelID}, result |-> J2534_STATUS_NOERROR]
         ELSE [channels |-> channels, result |-> res]

\* PassThruConnect: opens channel ch unless it reports a failure
PassThruConnect(channels, res, ch) ==
    IF res = J2534_STATUS_NOERROR
    THEN [channels |-> channels \cup {ch}, result |-> J2534_STATUS_NOERROR, channel_id |-> ch]
    ELSE [channels |-> channels, result |-> res, channel_id |-> ch]

(* ------------------------- j2534_interface.c --------------------------- *)
InitOutcomes == {"ok", "dlopen_failed", "symbol_missing", "open_failed"}

\* J2534_Initialize keeping the library handle when PassThruOpen fails
J2534_Initialize_keephandle(ad, outcome) ==
    IF outcome = "ok"
    THEN [ad |-> [ad EXCEPT !.j2534_handle = 1,
                            !.native_devices = ad.native_devices + 1],
          ret |-> 0, calls |-> 1]
    ELSE [ad |-> [ad EXCEPT !.j2534_handle =
                                IF outcome = "open_failed" THEN 1 ELSE NULL],
          ret |-> -1, calls |-> IF outcome = "open_failed" THEN 1 ELSE 0]

J2534_Initialize(ad, outcome) ==
    IF outcome = "ok"
    THEN [ad |-> [ad EXCEPT !.j2534_handle = 1,
                            !.native_devices = ad.native_devices + 1],
          ret |-> 0, calls |-> 1]
    ELSE [ad |-> [ad EXCEPT !.j2534_handle = NULL],
          ret |-> -1, calls |-> IF outcome = "open_failed" THEN 1 ELSE 0]

J2534_Disconnect(ad, ChannelID, res) ==
    IF ad.j2534_handle = NULL
    THEN [ad |-> ad, ret |-> -1, calls |-> 0]
    ELSE LET n == PassThruDisconnect(ad.native_channels, ChannelID, res)
         IN  IF n.result # J2534_STATUS_NOERROR
             THEN [ad |-> ad, ret |-> -1, calls |-> 1]
             ELSE [ad |-> [ad EXCEPT !.native_channels = n.channels,
                                     !.current_channel =
                                         IF ChannelID = ad.current_channel
                                         THEN 0 ELSE ad.current_channel],
                   ret |-> 0, calls |-> 1]

J2534_Connect(ad, ProtocolID, Flags, BaudRate, disc, conn, ch) ==
    IF ad.j2534_handle = NULL
    THEN [ad |-> ad, ret |-> -1, calls |-> 0]
    ELSE LET d == IF ad.current_channel # 0
                  THEN J2534_Disconnect(ad, ad.current_channel, disc)
                  ELSE [ad |-> ad, ret |-> 0, calls |-> 0]
             n == PassThruConnect(d.ad.native_channels, conn, ch)
         IN  IF n.result # J2534_STATUS_NOERROR
             THEN [ad |-> d.ad, ret |-> -1, calls |-> d.calls + 1]
             ELSE [ad |-> [d.ad EXCEPT !.native_channels = n.channels,
                                       !.current_channel = n.channel_id],
                   ret |-> 0, calls |-> d.calls + 1]

(* ------------------------ system_diagnostics.c ------------------------- *)
\* PID_Request values (mode, pid) used by the clients
Requests == {<<1, 0>>, <<1, 12>>}
\* a null PID_Request pointer
NullRequest == <<>>

\* static obd_state = {0}
ObdStateZero == [initialized |-> 0, protocol |-> 0, baudrate |-> 0, flags |-> 0,
                 error_count |-> 0, retry_count |-> 0]

RECURSIVE SumBytes(_)
SumBytes(s) == IF s = <<>> THEN 0 ELSE Head(s) + SumBytes(Tail(s))

\* uint8_t sum of the bytes
calculate_checksum(data) == SumBytes(data) % 256

\* the switch on obd_state.protocol: the formatted buffer, or <<>> for the
\* default branch (unsupported protocol)
FormatMessage(protocol, req) ==
    CASE protocol = PROTOCOL_ISO_15765_4 ->
            <<2, 1, 0, req[1], req[2]>>
      [] protocol = J2534_PROTOCOL_ISO9141 ->
            <<104, 106, 241, req[1], req[2],
              calculate_checksum(<<104, 106, 241, req[1], req[2]>>)>>
      [] OTHER -> <<>>

\* result of the native connect of the given attempt (1, 2, ...): the adapter
\* refuses the first env.fails attempts with a timeout
ConnResult(env, attempt) ==
    IF attempt <= env.fails THEN J2534_ERR_TIMEOUT ELSE J2534_STATUS_NOERROR

\* while (retries--) { connect; on failure continue; format; return }.
\* The source closes the loop after "return 0" and has no statement after it:
\* when the loop runs out, control reaches the end of the function and the
\* value the caller reads is indeterminate (env.ub).
RECURSIVE RetryLoop(_, _, _, _, _, _)
RetryLoop(st, ad, req, retries, env, attempts) ==
    IF retries = 0
    THEN [ad |-> ad, ret |-> env.ub, attempts |-> attempts, frame |-> <<>>]
    ELSE LET c == J2534_Connect(ad, st.protocol, st.flags, st.baudrate,
                                env.disc, ConnResult(env, attempts + 1), env.ch)
         IN  IF c.ret # 0
             THEN RetryLoop(st, c.ad, req, retries - 1, env, attempts + 1)
             ELSE LET buffer == FormatMessage(st.protocol, req)
                  IN  [ad |-> c.ad,
                       ret |-> IF buffer = <<>> THEN -1 ELSE 0,
                       attempts |-> attempts + 1,
                       frame |-> buffer]

\* obd2_send_request without its "Protocol not initialized" check
obd2_send_request_unguarded(st, ad, req, env) ==
    IF req = NullRequest
    THEN [ad |-> ad, ret |-> -1, attempts |-> 0, frame |-> <<>>]
    ELSE RetryLoop(st, ad, req, st.retry_count, env, 0)

obd2_send_request(st, ad, req, env) ==
    IF req = NullRequest
    THEN [ad |-> ad, ret |-> -1, attempts |-> 0, frame |-> <<>>]
    ELSE IF st.initialized = 0
    THEN [ad |-> ad, ret |-> -1, attempts |-> 0, frame |-> <<>>]
    ELSE RetryLoop(st, ad, req, st.retry_count, env, 0)

\* what is remembered of one obd2_send_request call
ReqLog(st, req, env, s) ==
    [protocol |-> st.protocol, req |-> req, fails |-> env.fails,
     attempts |-> s.attempts, ret |-> s.ret]

obd2_protocol_init(st, ad, outcome, env1, env2) ==
    LET i == J2534_Initialize(ad, outcome)
    IN  IF i.ret # 0
        THEN [st |-> st, ad |-> i.ad, ret |-> -1, reqs |-> <<>>]
        ELSE LET req == <<1, 0>>
                 st1 == [ObdStateZero EXCEPT !.retry_count = DEFAULT_RETRY_COUNT,
                                             !.protocol = J2534_PROTOCOL_CAN,
                                             !.baudrate = CAN_BAUDRATE,
                                             !.flags = 0]
                 s1  == obd2_send_request(st1, i.ad, req, env1)
                 st2 == [st1 EXCEPT !.protocol = J2534_PROTOCOL_ISO9141,
                                    !.baudrate = ISO9141_BAUDRATE]
                 s2  == obd2_send_request(st2, s1.ad, req, env2)
             IN  IF s1.ret = 0
                 THEN [st |-> [st1 EXCEPT !.initialized = 1], ad |-> s1.ad,
                       ret |-> 0, reqs |-> <<ReqLog(st1, req, env1, s1)>>]
                 ELSE IF s2.ret = 0
                 THEN [st |-> [st2 EXCEPT !.initialized = 1], ad |-> s2.ad,
                       ret |-> 0,
                       reqs |-> <<ReqLog(st1, req, env1, s1), ReqLog(st2, req, env2, s2)>>]
                 ELSE [st |-> st2, ad |-> s2.ad, ret |-> -1,
                       reqs |-> <<ReqLog(st1, req, env1, s1), ReqLog(st2, req, env2, s2)>>]

\* obd2_receive_response: the simulated response, or -1
obd2_receive_response(st, resp) ==
    IF resp = NULL THEN [ret |-> -1, resp |-> <<>>]
    ELSE IF st.initialized = 0 THEN [ret |-> -1, resp |-> <<>>]
    ELSE [ret |-> 0, resp |-> <<65, 12, 32, 0, 0, 0>>]

(* ------------------------- ISO-TP (CAN codec) -------------------------- *)
ISO_TP_MAX_LENGTH == 4095
CAN_STD_ID_MASK == 2047

\* can_send_frame hands the frame to J2534_WriteMsgs and returns its result;
\* the native write of call number fail_at fails (0: none fails)
can_send_frame(call, fail_at) == IF call = fail_at THEN -1 ELSE 0

\* the CANFrame as the adapter sees it: data holds the dlc bytes in use
CANFrame(id, bytes) ==
    [id |-> id, dlc |-> Len(bytes) % 256, data |-> bytes,
     is_extended |-> IF id > CAN_STD_ID_MASK THEN 1 ELSE 0, is_remote |-> 0]

\* a sequence counter that wraps from 15 to 1
NextSequence_skip0(sequence) == (sequence % 15) + 1

\* sequence = (sequence + 1) & 0x0F
NextSequence(sequence) == (sequence + 1) % 16

\* the loop going on to the next frame after a write has failed
RECURSIVE ConsecutiveFrames_nostop(_, _, _, _, _, _, _)
ConsecutiveFrames_nostop(id, data, remaining, index, sequence, calls, fail_at) ==
    IF remaining = 0
    THEN [frames |-> <<>>, calls |-> calls, ret |-> 0]
    ELSE LET block_size == IF remaining > 7 THEN 7 ELSE remaining
             frame == CANFrame(id, <<32 + (sequence % 16)>>
                                   \o [j \in 1..block_size |-> data[index + j]])
             rest == ConsecutiveFrames_nostop(id, data, remaining - block_size,
                                              (index + block_size) % 256,
                                              NextSequence(sequence),
                                              calls + 1, fail_at)
         IN  IF can_send_frame(calls + 1, fail_at) # 0
             THEN [frames |-> rest.frames, calls |-> rest.calls, ret |-> -1]
             ELSE [frames |-> <<frame>> \o rest.frames,
                   calls |-> rest.calls, ret |-> rest.ret]

\* the while (remaining > 0) loop; index is a uint8_t
RECURSIVE ConsecutiveFrames(_, _, _, _, _, _, _)
ConsecutiveFrames(id, data, remaining, index, sequence, calls, fail_at) ==
    IF remaining = 0
    THEN [frames |-> <<>>, calls |-> calls, ret |-> 0]
    ELSE LET block_size == IF remaining > 7 THEN 7 ELSE remaining
             frame == CANFrame(id, <<32 + (sequence % 16)>>
                                   \o [j \in 1..block_size |-> data[index + j]])
         IN  IF can_send_frame(calls + 1, fail_at) # 0
             THEN [frames |-> <<>>, calls |-> calls + 1, ret |-> -1]
             ELSE LET rest == ConsecutiveFrames(id, data, remaining - block_size,
                                                (index + block_size) % 256,
                                                NextSequence(sequence),
                                                calls + 1, fail_at)
                  IN  [frames |-> <<frame>> \o rest.frames,
                       calls |-> rest.calls, ret |-> rest.ret]

\* can_iso_tp_send testing the length only once the first frame has gone out
can_iso_tp_send_latecheck(id, data, length, fail_at) ==
    IF length <= 7
    THEN LET frame == CANFrame(id, <<length>> \o SubSeq(data, 1, length))
             r == can_send_frame(1, fail_at)
         IN  [frames |-> IF r = 0 THEN <<frame>> ELSE <<>>, calls |-> 1, ret |-> r]
    ELSE LET first == CANFrame(id, <<16 + ((length \div 256) % 16), length % 256>>
                                   \o SubSeq(data, 1, 6))
         IN  IF can_send_frame(1, fail_at) # 0
             THEN [frames |-> <<>>, calls |-> 1, ret |-> -1]
             ELSE IF length > ISO_TP_MAX_LENGTH
             THEN [frames |-> <<first>>, calls |-> 1, ret |-> -1]
             ELSE LET rest == ConsecutiveFrames(id, data, length - 6, 6, 1, 1, fail_at)
                  IN  [frames |-> <<first>> \o rest.frames,
                       calls |-> rest.calls, ret |-> rest.ret]

can_iso_tp_send(id, data, length, fail_at) ==
    IF length > ISO_TP_MAX_LENGTH
    THEN [frames |-> <<>>, calls |-> 0, ret |-> -1]
    ELSE IF length <= 7
    THEN LET frame == CANFrame(id, <<length>> \o SubSeq(data, 1, length))
             r == can_send_frame(1, fail_at)
         IN  [frames |-> IF r = 0 THEN <<frame>> ELSE <<>>, calls |-> 1, ret |-> r]
    ELSE LET first == CANFrame(id, <<16 + ((length \div 256) % 16), length % 256>>
                                   \o SubSeq(data, 1, 6))
         IN  IF can_send_frame(1, fail_at) # 0
             THEN [frames |-> <<>>, calls |-> 1, ret |-> -1]
             ELSE LET rest == ConsecutiveFrames(id, data, length - 6, 6, 1, 1, fail_at)
                  IN  [frames |-> <<first>> \o rest.frames,
                       calls |-> rest.calls, ret |-> rest.ret]

(* --------------------------- DTC decoding ------------------------------ *)
MAX_DTC_COUNT == 20

HexDigits == <<"0", "1", "2", "3", "4", "5", "6", "7",
               "8", "9", "A", "B", "C", "D", "E", "F">>

\* printf "%0<width>X": the uppercase hex digits of n, zero padded to width
RECURSIVE HexText(_, _)
HexText(n, width) ==
    IF n < 16 /\ width <= 1
    THEN <<HexDigits[n + 1]>>
    ELSE HexText(n \div 16, width - 1) \o <<HexDigits[(n % 16) + 1]>>

\* snprintf(buf, size, ...): at most size - 1 characters are stored
snprintf(size, text) ==
    IF Len(text) < size THEN text ELSE SubSeq(text, 1, size - 1)

\* diag_read_dtcs, "Format DTC code": type letter from raw_code & 0xC000, then
\* snprintf(dtc->code, sizeof(dtc->code), "%c%04X", type, raw_code & 0x3FFF)
\* into char code[5]
DtcCodeText(raw_code) ==
    LET type == CASE raw_code \div 16384 = 1 -> "C"
                  [] raw_code \div 16384 = 2 -> "B"
                  [] raw_code \div 16384 = 3 -> "U"
                  [] OTHER -> "P"
    IN  snprintf(5, <<type>> \o HexText(raw_code % 16384, 4))

\* the for (i = 0; i < msg_count; i += 2) loop of diag_read_dtcs; a status of
\* -1 stands for a status field that was not written
RECURSIVE ParseMsgs(_, _, _, _, _, _)
ParseMsgs(st, ad, response, msg_count, i, env) ==
    IF i >= msg_count
    THEN [ad |-> ad, dtcs |-> <<>>]
    ELSE LET raw_code == response[i + 1] * 256 + response[i + 2]
         IN  IF raw_code = 0
             THEN ParseMsgs(st, ad, response, msg_count, i + 2, env)
             ELSE LET s == obd2_send_request(st, ad, <<7, raw_code % 256>>, env)
                      r == obd2_receive_response(st, 1)
                      entry == [code |-> DtcCodeText(raw_code),
                                raw_code |-> raw_code,
                                status |-> IF s.ret = 0 /\ r.ret = 0
                                           THEN r.resp[3] ELSE -1]
                      rest == ParseMsgs(st, s.ad, response, msg_count, i + 2, env)
                  IN  [ad |-> rest.ad, dtcs |-> <<entry>> \o rest.dtcs]

\* rd is the result of J2534_ReadMsgs, which fills response and msg_count
diag_read_dtcs(st, ad, env, rd, response, msg_count) ==
    LET s == obd2_send_request(st, ad, <<3, 0>>, env)
    IN  IF s.ret # 0
        THEN [ad |-> s.ad, ret |-> -1, dtcs |-> <<>>]
        ELSE IF rd # 0
        THEN [ad |-> s.ad, ret |-> -1, dtcs |-> <<>>]
        ELSE LET p == ParseMsgs(st, s.ad, response, msg_count, 0, env)
             IN  [ad |-> p.ad, ret |-> 0, dtcs |-> p.dtcs]

diag_clear_dtcs(st, ad, env) ==
    LET s == obd2_send_request(st, ad, <<4, 0>>, env)
        r == obd2_receive_response(st, 1)
    IN  IF s.ret # 0
        THEN [ad |-> s.ad, ret |-> -1]
        ELSE IF r.ret # 0
        THEN [ad |-> s.ad, ret |-> -1]
        ELSE [ad |-> s.ad, ret |-> IF r.resp[3] = 68 THEN 0 ELSE -1]

\* dtc_read_current, "Format DTC code":
\* sprintf(entry->code, "%c%02X%02X", "PCBU"[type], buffer[i] & 0x3F, buffer[i+1])
DtcEntryCode(b0, b1) ==
    <<(<<"P", "C", "B", "U">>)[((b0 \div 64) % 4) + 1]>>
        \o HexText(b0 % 64, 2) \o HexText(b1, 2)

\* the for (i = 0; i < length && data->count < MAX_DTC_COUNT; i += 2) loop
RECURSIVE ParseCurrent(_, _, _, _)
ParseCurrent(buffer, length, i, count) ==
    IF i >= length \/ count >= MAX_DTC_COUNT
    THEN <<>>
    ELSE <<[code |-> DtcEntryCode(buffer[i + 1], buffer[i + 2])]>>
             \o ParseCurrent(buffer, length, i + 2, count + 1)

\* device is the interface of the current device type (NULL: unsupported
\* type); rd is the result of its read_pid, which fills buffer and length
dtc_read_current(data, device, rd, buffer, length) ==
    IF data = NULL THEN [ret |-> -1, dtcs |-> <<>>]
    ELSE IF device = NULL THEN [ret |-> -1, dtcs |-> <<>>]
    ELSE IF rd # 0 THEN [ret |-> -1, dtcs |-> <<>>]
    ELSE [ret |-> 0, dtcs |-> ParseCurrent(buffer, length, 0, 0)]

\* wr is the result of the device's write_pid(0x04, 0x00, ...)
dtc_clear_all(device, wr) ==
    IF device = NULL THEN -1
    ELSE IF wr # 0 THEN -1
    ELSE 0

monitor_clear_dtc(wr) == wr

\* sprintf(dtc, "%s%02X%02X", prefix[(data[0] >> 6) & 0x03], data[0] & 0x3F, data[1])
format_dtc(b0, b1) ==
    <<(<<"P", "C", "B", "U">>)[((b0 \div 64) % 4) + 1]>>
        \o HexText(b0 % 64, 2) \o HexText(b1, 2)

\* rd is the result of read_pid(0x03, 0x00, ...), which fills data and length;
\* the codes are formatted one by one and logged
monitor_check_dtc(rd, data, length) ==
    IF rd # 0
    THEN [ret |-> -1, dtcs |-> <<>>]
    ELSE LET dtc_count == length \div 2
         IN  [ret |-> dtc_count,
              dtcs |-> [i \in 1..dtc_count |->
                          [code |-> format_dtc(data[(2 * i) - 1], data[2 * i])]]]

(* ---------------------- KWP2000 and J1850 framing ---------------------- *)
KWP_HEADER_LENGTH == 4
KWP_MAX_LENGTH == 255
J1850_HEADER_LENGTH == 3
J1850_MAX_LENGTH == 11
J1850_TYPE_REQUEST == 106

\* wr is the result of J2534_WriteMsgs; written holds the messages handed to it
kwp_send_request(service_id, data, length, wr) ==
    IF length > KWP_MAX_LENGTH - KWP_HEADER_LENGTH
    THEN [ret |-> -1, written |-> <<>>]
    ELSE [ret |-> wr, written |-> << <<service_id>> \o SubSeq(data, 1, length) >>]

\* rd is the result of J2534_ReadMsgs, which fills buffer and msg_count;
\* buffer[0] != (0x40 | buffer[0]) holds exactly when bit 0x40 of buffer[0]
\* is clear
kwp_receive_response(rd, buffer, msg_count) ==
    IF rd # 0
    THEN [ret |-> -1, payload |-> <<>>]
    ELSE IF (buffer[1] \div 64) % 2 = 0
    THEN [ret |-> -1, payload |-> <<>>]
    ELSE [ret |-> 0, payload |-> SubSeq(buffer, 2, msg_count)]

\* j1850_send_message without its length check
j1850_send_message_unchecked(data, length, wr) ==
    [ret |-> wr,
     written |-> << <<J1850_TYPE_REQUEST, 106, 241>> \o SubSeq(data, 1, length) >>]

j1850_send_message(data, length, wr) ==
    IF length > J1850_MAX_LENGTH - J1850_HEADER_LENGTH
    THEN [ret |-> -1, written |-> <<>>]
    ELSE [ret |-> wr,
          written |-> << <<J1850_TYPE_REQUEST, 106, 241>> \o SubSeq(data, 1, length) >>]

J1850_TYPE_RESPONSE == 107

\* a - b in uint32_t arithmetic, for a, b < 2^16, as the pair <<high 16 bits,
\* low 16 bits>> of the 32-bit result
U32Sub(a, b) ==
    IF a >= b THEN <<0, a - b>> ELSE <<65535, 65536 - (b - a)>>

\* rd is the result of J2534_ReadMsgs, which fills buffer (uint8_t[11]) and
\* msg_count (uint32_t). *length = msg_count - J1850_HEADER_LENGTH is computed
\* modulo 2^32; memcpy then copies *length bytes from &buffer[3]. A copy that
\* runs past the 8 bytes left in buffer is undefined: it ends the process
\* (crash), or it returns having copied length bytes, of which only the first
\* 8 come from buffer
j1850_receive_message(rd, buffer, msg_count, crash) ==
    IF rd # 0
    THEN [ret |-> -1, length |-> <<0, 0>>, payload |-> <<>>, fault |-> FALSE]
    ELSE IF buffer[1] # J1850_TYPE_RESPONSE
    THEN [ret |-> -1, length |-> <<0, 0>>, payload |-> <<>>, fault |-> FALSE]
    ELSE LET length == U32Sub(msg_count, J1850_HEADER_LENGTH)
             inside == J1850_MAX_LENGTH - J1850_HEADER_LENGTH
         IN  IF length[1] = 0 /\ length[2] <= inside
             THEN [ret |-> 0, length |-> length,
                   payload |-> SubSeq(buffer, J1850_HEADER_LENGTH + 1,
                                      J1850_HEADER_LENGTH + length[2]),
                   fault |-> FALSE]
             ELSE IF crash
             THEN [ret |-> 0, length |-> length, payload |-> <<>>, fault |-> TRUE]
             ELSE [ret |-> 0, length |-> length,
                   payload |-> SubSeq(buffer, J1850_HEADER_LENGTH + 1,
                                      J1850_MAX_LENGTH),
                   fault |-> FALSE]

(* ------------------------------ RPM example ---------------------------- *)
\* ((msb * 256.0f) + lsb) / 4.0f: the float, exact in binary, as its whole
\* part and its number of quarters
calculate_rpm(msb, lsb) ==
    LET n == (msb * 256) + lsb
    IN  <<n \div 4, n % 4>>

(* ------------------------------ SCT device ----------------------------- *)
\* the values are floats in the source; the model draws them from integers
verify_fuel_parameters(fuel) ==
    IF \E i \in 1..24 : \/ fuel.volumetricEfficiency[i] < 0
                        \/ fuel.volumetricEfficiency[i] > 2
    THEN -1
    ELSE IF \/ fuel.afrTargets.idle < 10 \/ fuel.afrTargets.idle > 20
            \/ fuel.afrTargets.wot < 10 \/ fuel.afrTargets.wot > 15
    THEN -1
    ELSE 0

\* verify_boost_parameters without its targetBoost > maxBoost test
verify_boost_parameters_nolimit(boost) ==
    IF boost.maxBoost > 60
    THEN -1
    ELSE IF boost.safety.cutThreshold <= boost.safety.resumeThreshold
    THEN -1
    ELSE 0

verify_boost_parameters(boost) ==
    IF boost.maxBoost > 60 \/ boost.targetBoost > boost.maxBoost
    THEN -1
    ELSE IF boost.safety.cutThreshold <= boost.safety.resumeThreshold
    THEN -1
    ELSE 0

\* rd is the result of get_advanced_tuning, which fills tuning
sct_verify_tuning(rd, tuning) ==
    IF rd # 0
    THEN -1
    ELSE IF \/ verify_fuel_parameters(tuning.fuelManagement) # 0
            \/ verify_boost_parameters(tuning.boostControl) # 0
    THEN -1
    ELSE 0

\* gp is the result of get_parameters
sct_test_communication(gp) == IF gp # 0 THEN -1 ELSE 0

\* fw is the result of check_firmware_version; version is what sscanf reads
\* with "%u.%u.%u": the three numbers, or fewer when the text does not parse
sct_check_compatibility(fw, version) ==
    IF fw # 0
    THEN -1
    ELSE IF Len(version) # 3
    THEN -1
    ELSE IF version[1] < 2 \/ (version[1] = 2 /\ version[2] < 9)
    THEN -1
    ELSE 0

\* env holds the results of the calls made through sct_interface
sct_init_device(config, env) ==
    IF sct_test_communication(env.get_parameters) # 0
    THEN -1
    ELSE IF sct_check_compatibility(env.check_firmware_version, env.version) # 0
    THEN -1
    ELSE IF config.high_speed_logging /\ env.start_monitoring # 0
    THEN -1
    ELSE IF /\ config.safety_features
            /\ env.get_safety_limits = 0
            /\ env.set_safety_limits # 0
    THEN -1
    ELSE 0

(* --------------------------- device_adapter.c -------------------------- *)
DEVICE_ELM327 == 1
DEVICE_ARDUINO == 2
DEVICE_ESP32 == 3
DEVICE_SCT == 4
DEVICE_SIMULATOR == 5

\* the init functions of the adapters; a pointer is <<>> when null and
\* <<x>> when it points to x, an interface is named by its init function
elm327_init(config) == 0
arduino_init(config) == 0
esp32_init(config) == 0
\* the static sct_init_device of device_adapter.c
sct_adapter_init(config) == 0

\* interface->init(config)
InterfaceInit(interface, config) ==
    CASE interface = <<"elm327_init">> -> elm327_init(config)
      [] interface = <<"arduino_init">> -> arduino_init(config)
      [] interface = <<"esp32_init">> -> esp32_init(config)
      [] interface = <<"sct_init_device">> -> sct_adapter_init(config)

\* device_get_interface handing out the ELM327 interface for unknown types
device_get_interface_fallback(type) ==
    CASE type = DEVICE_ARDUINO -> <<"arduino_init">>
      [] type = DEVICE_ESP32 -> <<"esp32_init">>
      [] type = DEVICE_SCT -> <<"sct_init_device">>
      [] OTHER -> <<"elm327_init">>

device_get_interface(type) ==
    CASE type = DEVICE_ELM327 -> <<"elm327_init">>
      [] type = DEVICE_ARDUINO -> <<"arduino_init">>
      [] type = DEVICE_ESP32 -> <<"esp32_init">>
      [] type = DEVICE_SCT -> <<"sct_init_device">>
      [] OTHER -> <<>>

\* calls: the adapter functions called, each with its result
device_init(config) ==
    IF config = <<>>
    THEN [ret |-> -1, calls |-> <<>>]
    ELSE LET interface == device_get_interface(config[1].type)
         IN  IF interface = <<>>
             THEN [ret |-> -1, calls |-> <<>>]
             ELSE LET r == InterfaceInit(interface, config)
                  IN  [ret |-> r, calls |-> <<[fn |-> interface[1], ret |-> r]>>]

\* the "Initialize safety systems" step of sct_init_device: the limits were
\* read with get_safety_limits and applied with set_safety_limits
SafetyLimitsApplied(config, env) ==
    /\ sct_test_communication(env.get_parameters) = 0
    /\ sct_check_compatibility(env.check_firmware_version, env.version) = 0
    /\ ~(config.high_speed_logging /\ env.start_monitoring # 0)
    /\ config.safety_features
    /\ env.get_safety_limits = 0
    /\ env.set_safety_limits = 0

(* --------------------------- realtime monitor -------------------------- *)
\* a float value is the pair <<numerator, denominator>> of the division that
\* computes it
calculate_engine_load(raw_value) == <<raw_value * 100, 255>>

calculate_coolant_temp(raw_value) == <<raw_value - 40, 1>>

\* the value stored in frame->value by the switch of diag_read_freeze_frame
FreezeFrameValue(pid, data) ==
    CASE pid = 4  -> calculate_engine_load(data[1])
      [] pid = 5  -> calculate_coolant_temp(data[1])
      [] pid = 12 -> LET r == calculate_rpm(data[1], data[2])
                     IN  <<(r[1] * 4) + r[2], 4>>
      [] OTHER    -> <<0, 1>>

process_pid_data(pid, data) ==
    CASE pid = 4  -> <<data[1] * 100, 255>>
      [] pid = 5  -> <<data[1] - 40, 1>>
      [] pid = 12 -> <<(data[1] * 256) + data[2], 4>>
      [] pid = 13 -> <<data[1], 1>>
      [] pid = 15 -> <<data[1] - 40, 1>>
      [] pid = 17 -> <<data[1] * 100, 255>>
      [] OTHER    -> <<data[1], 1>>

\* a slot of the history as malloc returns it, and as memset leaves it; a
\* written sample carries the number of the round that wrote it
UninitSample == [round |-> -1, values |-> <<>>, status |-> <<>>]
ZeroSample == [round |-> 0, values |-> <<>>, status |-> <<>>]

\* static monitor_state = {0}; history is <<>> for NULL and <<slots>> for a
\* pointer, history_valid tells a live allocation from a freed one
MonitorStateZero ==
    [config |-> [buffer_size |-> 0, pids |-> <<>>, log_to_file |-> 0],
     history |-> <<>>, history_valid |-> FALSE,
     history_size |-> 0, history_head |-> 0,
     log_file |-> NULL, running |-> 0]

\* malloc_ok and fopen_ok are the results of malloc and fopen
monitor_init(ms, config, malloc_ok, fopen_ok) ==
    IF config = <<>>
    THEN [ms |-> ms, ret |-> -1]
    ELSE LET c == config[1]
             m1 == [ms EXCEPT !.config = c,
                              !.history = IF malloc_ok
                                          THEN <<[i \in 1..c.buffer_size |-> UninitSample]>>
                                          ELSE <<>>,
                              !.history_valid = malloc_ok]
         IN  IF ~malloc_ok
             THEN [ms |-> m1, ret |-> -1]
             ELSE IF c.log_to_file # 0
             THEN IF ~fopen_ok
                  THEN [ms |-> [m1 EXCEPT !.log_file = NULL,
                                          !.history_valid = FALSE],
                        ret |-> -1]
                  ELSE [ms |-> [m1 EXCEPT !.log_file = 1], ret |-> 0]
             ELSE [ms |-> m1, ret |-> 0]

monitor_start(ms) == [ms |-> [ms EXCEPT !.running = 1], ret |-> 0]

monitor_stop(ms) == [ms |-> [ms EXCEPT !.running = 0], ret |-> 0]

\* the slot &history[history_head] lies inside a live allocation
SlotInBounds(ms) ==
    /\ ms.history # <<>>
    /\ ms.history_valid
    /\ ms.history_head < ms.config.buffer_size

\* the read_pid requests of one round, in the order the loop issues them
RoundRequests(ms) ==
    [i \in 1..Len(ms.config.pids) |-> [mode |-> 1, pid |-> ms.config.pids[i]]]

\* the loop of monitor_collect_data issuing the requests from the last index
RoundRequests_reversed(ms) ==
    [i \in 1..Len(ms.config.pids) |->
        [mode |-> 1, pid |-> ms.config.pids[Len(ms.config.pids) + 1 - i]]]

\* the sample one round builds; reads[i] is <<>> when read_pid fails and
\* <<data>> when it succeeds
RoundSample(ms, reads, round) ==
    [round |-> round,
     values |-> [i \in 1..Len(ms.config.pids) |->
                    IF reads[i] # <<>>
                    THEN process_pid_data(ms.config.pids[i], reads[i][1])
                    ELSE <<0, 1>>],
     status |-> [i \in 1..Len(ms.config.pids) |->
                    IF reads[i] # <<>> THEN 1 ELSE 0]]

\* one round. Outside a live allocation the write through sample, and with
\* buffer_size 0 the remainder, are undefined: ub.crash ends the process,
\* otherwise the write lands outside the history and ub.head is the value the
\* remainder by zero leaves in history_head
monitor_collect_data(ms, reads, round, ub) ==
    IF ms.running = 0
    THEN [ms |-> ms, fault |-> FALSE, requests |-> <<>>, wrote |-> FALSE]
    ELSE IF SlotInBounds(ms)
    THEN [ms |-> [ms EXCEPT
                    !.history = <<[ms.history[1] EXCEPT
                                     ![ms.history_head + 1] =
                                         RoundSample(ms, reads, round)]>>,
                    !.history_head = (ms.history_head + 1) % ms.config.buffer_size,
                    !.history_size = IF ms.history_size < ms.config.buffer_size
                                     THEN ms.history_size + 1
                                     ELSE ms.history_size],
          fault |-> FALSE, requests |-> RoundRequests(ms), wrote |-> TRUE]
    ELSE IF ub.crash
    THEN [ms |-> ms, fault |-> TRUE, requests |-> <<>>, wrote |-> FALSE]
    ELSE [ms |-> [ms EXCEPT
                    !.history_head = IF ms.config.buffer_size = 0
                                     THEN ub.head
                                     ELSE (ms.history_head + 1) % ms.config.buffer_size,
                    !.history_size = IF ms.history_size < ms.config.buffer_size
                                     THEN ms.history_size + 1
                                     ELSE ms.history_size],
          fault |-> FALSE, requests |-> RoundRequests(ms), wrote |-> FALSE]

\* memset of a freed history is undefined: crash, or the call returns
monitor_clear_history(ms, crash) ==
    IF ms.history = <<>>
    THEN [ms |-> ms, ret |-> -1, fault |-> FALSE]
    ELSE IF ~ms.history_valid /\ crash
    THEN [ms |-> ms, ret |-> 0, fault |-> TRUE]
    ELSE [ms |-> [ms EXCEPT
                    !.history = <<[i \in 1..Len(ms.history[1]) |-> ZeroSample]>>,
                    !.history_head = 0,
                    !.history_size = 0],
          ret |-> 0, fault |-> FALSE]

(* ------------------------------ log buffer ----------------------------- *)
\* a LogBuffer before log_init; entries is <<>> for NULL and <<slots>> for an
\* allocation
LogBufferZero == [entries |-> <<>>, capacity |-> 0, size |-> 0, head |-> 0, tail |-> 0]

\* a slot of entries as malloc returns it
UninitEntry == [serial |-> 0]

\* buffer is <<>> for a NULL pointer and <<b>> for a pointer to b
log_init(buffer, capacity, malloc_ok) ==
    IF buffer = <<>>
    THEN [buffer |-> buffer, ret |-> -1]
    ELSE IF ~malloc_ok
    THEN [buffer |-> <<[buffer[1] EXCEPT !.entries = <<>>]>>, ret |-> -1]
    ELSE [buffer |-> <<[entries |-> <<[i \in 1..capacity |-> UninitEntry]>>,
                       capacity |-> capacity, size |-> 0, head |-> 0, tail |-> 0]>>,
          ret |-> 0]

\* entries[head] lies inside the allocation, and the remainders are defined
LogSlotsDefined(b) == b.entries # <<>> /\ b.capacity >= 1

\* log_write leaving tail alone when the buffer is full
log_write_keeptail(buffer, entry) ==
    IF buffer = <<>> \/ entry = <<>>
    THEN [buffer |-> buffer, fault |-> FALSE]
    ELSE LET b == buffer[1]
         IN  IF ~LogSlotsDefined(b)
             THEN [buffer |-> buffer, fault |-> TRUE]
             ELSE [buffer |-> <<[b EXCEPT
                       !.entries = <<[b.entries[1] EXCEPT ![b.head + 1] = entry[1]]>>,
                       !.head = (b.head + 1) % b.capacity,
                       !.size = IF b.size < b.capacity THEN b.size + 1 ELSE b.size]>>,
                   fault |-> FALSE]

\* a write through a NULL entries pointer, or with capacity 0, is undefined
\* and is taken to end the process (fault)
log_write(buffer, entry) ==
    IF buffer = <<>> \/ entry = <<>>
    THEN [buffer |-> buffer, fault |-> FALSE]
    ELSE LET b == buffer[1]
         IN  IF ~LogSlotsDefined(b)
             THEN [buffer |-> buffer, fault |-> TRUE]
             ELSE [buffer |-> <<[b EXCEPT
                       !.entries = <<[b.entries[1] EXCEPT ![b.head + 1] = entry[1]]>>,
                       !.head = (b.head + 1) % b.capacity,
                       !.size = IF b.size < b.capacity THEN b.size + 1 ELSE b.size,
                       !.tail = IF b.size < b.capacity
                                THEN b.tail ELSE (b.tail + 1) % b.capacity]>>,
                   fault |-> FALSE]

\* log_read handing out the entry written last
log_read_newest(buffer, entry) ==
    IF buffer = <<>> \/ entry = <<>>
    THEN [buffer |-> buffer, ret |-> -1, entry |-> <<>>]
    ELSE LET b == buffer[1]
         IN  IF b.size = 0
             THEN [buffer |-> buffer, ret |-> -1, entry |-> <<>>]
             ELSE [buffer |-> <<[b EXCEPT !.tail = (b.tail + 1) % b.capacity,
                                         !.size = b.size - 1]>>,
                   ret |-> 0,
                   entry |-> <<b.entries[1][((b.head + b.capacity - 1) % b.capacity) + 1]>>]

\* entry is <<>> for a NULL pointer; the entry read is handed back as <<e>>
log_read(buffer, entry) ==
    IF buffer = <<>> \/ entry = <<>>
    THEN [buffer |-> buffer, ret |-> -1, entry |-> <<>>]
    ELSE LET b == buffer[1]
         IN  IF b.size = 0
             THEN [buffer |-> buffer, ret |-> -1, entry |-> <<>>]
             ELSE [buffer |-> <<[b EXCEPT !.tail = (b.tail + 1) % b.capacity,
                                         !.size = b.size - 1]>>,
                   ret |-> 0,
                   entry |-> <<b.entries[1][b.tail + 1]>>]

log_free(buffer) ==
    IF buffer # <<>> /\ buffer[1].entries # <<>>
    THEN <<LogBufferZero>>
    ELSE buffer

\* 2^64 mod n, computed from 2^16 mod n by squaring twice
Pow2_64Mod(n) ==
    LET p16 == 65536 % n
        p32 == (p16 * p16) % n
    IN  (p32 * p32) % n

\* (a - 1) % n with a - 1 computed in size_t (64-bit unsigned) arithmetic
SizeTPredMod(a, n) ==
    IF a > 0 THEN (a - 1) % n ELSE (Pow2_64Mod(n) + n - 1) % n

\* sample is <<>> for a NULL pointer. With buffer_size 0 the remainder, and
\* with no live history the read, are undefined: taken to end the process
monitor_get_latest(ms, sample) ==
    IF ms.running = 0 \/ sample = <<>>
    THEN [ret |-> -1, idx |-> 0, sample |-> <<>>, fault |-> FALSE]
    ELSE IF ms.config.buffer_size = 0 \/ ms.history = <<>> \/ ~ms.history_valid
    THEN [ret |-> 0, idx |-> 0, sample |-> <<>>, fault |-> TRUE]
    ELSE LET idx == SizeTPredMod(ms.history_head, ms.config.buffer_size)
         IN  [ret |-> 0, idx |-> idx, sample |-> <<ms.history[1][idx + 1]>>,
              fault |-> FALSE]

\* the monitoring task between two rounds
CollectorIdle == [pc |-> "idle", slot |-> 0, i |-> 0]

\* sample->values[i] = value; sample->status[i] = status, the other elements
\* of the slot keeping what they held
SetSampleAt(sample, i, value, status) ==
    LET n == IF Len(sample.values) < i THEN i ELSE Len(sample.values)
    IN  [sample EXCEPT
            !.values = [k \in 1..n |-> IF k = i THEN value
                                       ELSE IF k <= Len(sample.values)
                                            THEN sample.values[k] ELSE <<0, 1>>],
            !.status = [k \in 1..n |-> IF k = i THEN status
                                       ELSE IF k <= Len(sample.status)
                                            THEN sample.status[k] ELSE 0]]

(* ------------------------------ actions -------------------------------- *)
NativeResults == {J2534_STATUS_NOERROR, J2534_ERR_TIMEOUT}

\* ids the native layer can hand out: those of no open channel
FreeIds(channels) == ChannelIds \ channels

\* what the native layer does during one obd2_send_request: how many leading
\* connects it refuses, the result of a disconnect, the id of the channel it
\* opens, and the value read when the function ends without a return.
\* With every id in use it refuses every connect.
\* Within one handler every disconnect has the same result (discs) and the
\* indeterminate value is the same each time it is read (ubs).
SendEnvs(free, discs, ubs) ==
    [fails : IF free = {} THEN {MaxConnFails} ELSE 0..MaxConnFails,
     disc  : discs,
     ch    : IF free = {} THEN {0} ELSE free,
     ub    : ubs]

SetAdapter(ad) ==
    /\ j2534_handle' = ad.j2534_handle
    /\ current_channel' = ad.current_channel
    /\ native_channels' = ad.native_channels
    /\ native_devices' = ad.native_devices

Init ==
    /\ obd_state = ObdStateZero
    /\ current_health = [protocol_status |-> 0]
    /\ j2534_handle = NULL
    /\ current_channel = 0
    /\ native_channels = {}
    /\ native_devices = 0
    /\ last = [op |-> "none", ret |-> 0, init |-> "-", reqs |-> <<>>]
    /\ tp_state = "idle"
    /\ tp_id = 0
    /\ tp_data = <<>>
    /\ tp_frames = <<>>
    /\ tp_calls = 0
    /\ tp_ret = 0
    /\ dtc = [op |-> "none", payload |-> <<>>, ret |-> 0, dtcs |-> <<>>]
    /\ proto = [op |-> "none", request |-> -1, data |-> <<>>, written |-> <<>>,
                buffer |-> <<>>, msg_count |-> 0, ret |-> 0, payload |-> <<>>]
    /\ sct = [op |-> "none", ret |-> 0, current_config |-> <<>>, rd |-> 0,
              tuning |-> <<>>, limits_applied |-> FALSE]
    /\ monitor_state = MonitorStateZero
    /\ mon = [op |-> "none", ret |-> 0, round |-> 0, fault |-> FALSE,
              requests |-> <<>>, reads |-> <<>>]
    /\ log_buffer = LogBufferZero
    /\ lg = [op |-> "none", ret |-> 0, entry |-> <<>>, writes |-> 0,
             reads |-> 0, inited |-> FALSE, fault |-> FALSE]
    /\ collector = CollectorIdle
    /\ latest = [ret |-> 0, idx |-> 0, sample |-> <<>>, filling |-> <<>>,
                 newest |-> 0, fault |-> FALSE]

\* the native layer during the two probes of one negotiation
ProbeEnvs(free) ==
    UNION { { <<env1, env2>> :
                  env2 \in SendEnvs(free \ {env1.ch}, {env1.disc}, {env1.ub}) } :
            env1 \in SendEnvs(free, NativeResults, {0, -1}) }

\* no probe is sent when J2534_Initialize fails
NoProbe == [fails |-> 0, disc |-> J2534_STATUS_NOERROR, ch |-> 0, ub |-> -1]

NegotiationEnvs(outcome, free) ==
    IF outcome = "ok" THEN ProbeEnvs(free) ELSE {<<NoProbe, NoProbe>>}

\* the client negotiates
ProtocolInit ==
    \E outcome \in InitOutcomes :
        /\ outcome = "ok" => native_devices < MaxDevices
        /\ \E envs \in NegotiationEnvs(outcome, FreeIds(native_channels)) :
           LET r == obd2_protocol_init(obd_state, Adapter, outcome, envs[1], envs[2])
           IN  /\ obd_state' = r.st
               /\ SetAdapter(r.ad)
               /\ last' = [op |-> "obd2_protocol_init", ret |-> r.ret,
                           init |-> outcome, reqs |-> r.reqs]
        /\ UNCHANGED <<current_health, tpVars, monVars, extVars, auxVars>>

\* the client sends a request
SendRequest ==
    \E req \in Requests \cup {NullRequest} :
    \E env \in SendEnvs(FreeIds(native_channels), NativeResults, {0, -1}) :
        LET s == obd2_send_request(obd_state, Adapter, req, env)
        IN  /\ SetAdapter(s.ad)
            /\ last' = [op |-> "obd2_send_request", ret |-> s.ret, init |-> "-",
                        reqs |-> <<ReqLog(obd_state, req, env, s)>>]
            /\ UNCHANGED <<obd_state, current_health, tpVars, monVars, extVars, auxVars>>

\* the client asks for a response
ReceiveResponse ==
    \E resp \in {NULL, 1} :
        LET r == obd2_receive_response(obd_state, resp)
        IN  /\ last' = [op |-> "obd2_receive_response", ret |-> r.ret,
                        init |-> "-", reqs |-> <<>>]
            /\ UNCHANGED <<obd_state, current_health, j2534_handle,
                           current_channel, native_channels, native_devices, tpVars, monVars, extVars, auxVars>>

\* diag_get_system_health: with a null health pointer it returns -1; otherwise
\* it calls obd2_protocol_init and stores its outcome as protocol_status (the
\* host and bus figures it also stores are not modelled)
GetSystemHealth ==
    \/ /\ last' = [op |-> "diag_get_system_health", ret |-> -1,
                    init |-> "-", reqs |-> <<>>]
       /\ UNCHANGED <<obd_state, current_health, j2534_handle,
                      current_channel, native_channels, native_devices, tpVars, monVars, extVars, auxVars>>
    \/ \E outcome \in InitOutcomes :
           /\ outcome = "ok" => native_devices < MaxDevices
           /\ \E envs \in NegotiationEnvs(outcome, FreeIds(native_channels)) :
              LET r == obd2_protocol_init(obd_state, Adapter, outcome, envs[1], envs[2])
              IN  /\ obd_state' = r.st
                  /\ SetAdapter(r.ad)
                  /\ current_health' =
                         [protocol_status |-> IF r.ret = 0 THEN 1 ELSE 0]
                  /\ last' = [op |-> "diag_get_system_health", ret |-> 0,
                              init |-> outcome, reqs |-> r.reqs]
           /\ UNCHANGED <<tpVars, monVars, extVars, auxVars>>

\* J2534_Initialize called on its own
Initialize ==
    \E outcome \in InitOutcomes :
        /\ outcome = "ok" => native_devices < MaxDevices
        /\ LET i == J2534_Initialize(Adapter, outcome)
           IN  /\ SetAdapter(i.ad)
               /\ last' = [op |-> "J2534_Initialize", ret |-> i.ret,
                           init |-> outcome, reqs |-> <<>>]
        /\ UNCHANGED <<obd_state, current_health, tpVars, monVars, extVars, auxVars>>

\* J2534_Connect called by a protocol layer (can_init, kwp_init, j1850_init)
Connect ==
    \E ProtocolID \in {J2534_PROTOCOL_CAN, J2534_PROTOCOL_ISO9141} :
    \E disc \in NativeResults :
    \E conn \in IF FreeIds(native_channels) = {}
                THEN {J2534_ERR_TIMEOUT} ELSE NativeResults :
    \E ch \in IF FreeIds(native_channels) = {} THEN {0} ELSE FreeIds(native_channels) :
        LET c == J2534_Connect(Adapter, ProtocolID, 0, CAN_BAUDRATE, disc, conn, ch)
        IN  /\ SetAdapter(c.ad)
            /\ last' = [op |-> "J2534_Connect", ret |-> c.ret, init |-> "-",
                        reqs |-> <<>>,
                        native |-> IF j2534_handle = NULL THEN <<>> ELSE <<conn>>,
                        native_calls |-> c.calls]
            /\ UNCHANGED <<obd_state, current_health, tpVars, monVars, extVars, auxVars>>

\* J2534_Disconnect called with any channel id
Disconnect ==
    \E ChannelID \in ChannelIds :
    \E res \in NativeResults :
        LET d == J2534_Disconnect(Adapter, ChannelID, res)
        IN  /\ SetAdapter(d.ad)
            /\ last' = [op |-> "J2534_Disconnect", ret |-> d.ret, init |-> "-",
                        reqs |-> <<>>,
                        native |-> IF j2534_handle = NULL THEN <<>>
                                   ELSE <<PassThruDisconnect(native_channels,
                                                             ChannelID, res).result>>,
                        native_calls |-> d.calls]
            /\ UNCHANGED <<obd_state, current_health, tpVars, monVars, extVars, auxVars>>

\* main without a command line argument: obd2_init and hw_init return 0,
\* log_init fails when its allocation fails; then the "Read RPM" example
Main ==
    \E log_ok \in BOOLEAN :
    \E env \in SendEnvs(FreeIds(native_channels), NativeResults, {0, -1}) :
        LET req == <<1, 12>>
            s == obd2_send_request(obd_state, Adapter, req, env)
            r == obd2_receive_response(obd_state, 1)
        IN  /\ IF log_ok
               THEN /\ SetAdapter(s.ad)
                    /\ last' = [op |-> "main", ret |-> 0, init |-> "-",
                                reqs |-> <<ReqLog(obd_state, req, env, s)>>,
                                rpm |-> IF s.ret = 0 /\ r.ret = 0
                                        THEN <<calculate_rpm(r.resp[3], r.resp[4])>>
                                        ELSE <<>>]
               ELSE /\ UNCHANGED <<j2534_handle, current_channel,
                                   native_channels, native_devices>>
                    /\ last' = [op |-> "main", ret |-> 1, init |-> "-",
                                reqs |-> <<>>, rpm |-> <<>>]
            /\ UNCHANGED <<obd_state, current_health, tpVars, monVars, extVars, auxVars>>

\* DeviceType values, and one value past the enum
DeviceTypes == 0..(DEVICE_SIMULATOR + 1)

\* device_init with a null configuration or one of any device type
DeviceInit ==
    \E config \in {<<>>} \cup { <<[type |-> t]>> : t \in DeviceTypes } :
        LET r == device_init(config)
        IN  /\ last' = [op |-> "device_init", ret |-> r.ret, init |-> "-",
                        reqs |-> <<>>, config |-> config, calls |-> r.calls]
            /\ UNCHANGED <<obd_state, current_health, j2534_handle,
                           current_channel, native_channels, native_devices,
                           tpVars, monVars, extVars, auxVars>>

Next ==
    \/ ProtocolInit
    \/ SendRequest
    \/ ReceiveResponse
    \/ GetSystemHealth
    \/ Initialize
    \/ Connect
    \/ Disconnect
    \/ Main
    \/ DeviceInit

Spec == Init /\ [][Next]_vars

(* ------------------------ ISO-TP specification ------------------------- *)
\* longest payload given to can_iso_tp_send
MaxPayloadLen == 262
\* the native write that fails is one of the first MaxFailAt (or none)
MaxFailAt == 3
\* payloads: byte i (from 0) of the payload of seed k is (k + i) mod 251
PayloadSeeds == {0, 100}
CanIds == {2015, 417018865}

Payload(k, length) == [i \in 1..length |-> (k + i - 1) % 251]

\* number of frames of a payload
FrameCount(length) == IF length <= 7 THEN 1 ELSE 1 + (length \div 7)

\* the short and medium payloads, and the first length that is too long
PayloadLengths == (0..MaxPayloadLen) \cup {ISO_TP_MAX_LENGTH + 1}

IsoTpSend ==
    /\ tp_state = "idle"
    /\ \E id \in CanIds :
       \E length \in PayloadLengths :
       \E k \in PayloadSeeds :
       \E fail_at \in 0..(IF FrameCount(length) < MaxFailAt
                           THEN FrameCount(length) ELSE MaxFailAt) :
           LET r == can_iso_tp_send(id, Payload(k, length), length, fail_at)
           IN  /\ tp_state' = "returned"
               /\ tp_id' = id
               /\ tp_data' = Payload(k, length)
               /\ tp_frames' = r.frames
               /\ tp_calls' = r.calls
               /\ tp_ret' = r.ret
    /\ UNCHANGED <<sessVars, monVars, extVars, auxVars>>

\* the caller is done with the result
IsoTpIdle ==
    /\ tp_state = "returned"
    /\ tp_state' = "idle"
    /\ tp_id' = 0
    /\ tp_data' = <<>>
    /\ tp_frames' = <<>>
    /\ tp_calls' = 0
    /\ tp_ret' = 0
    /\ UNCHANGED <<sessVars, monVars, extVars, auxVars>>

NextIsoTp ==
    \/ IsoTpSend
    \/ IsoTpIdle

SpecIsoTp == Init /\ [][NextIsoTp]_vars

(* -------------------------- DTC specification -------------------------- *)
\* most two-byte codes in one Mode 03 payload
MaxDtcPairs == 2
\* bytes of the payloads: 0x00, 0x01, 0x23, 0x81, 0xFF
DtcBytes == {0, 1, 35, 129, 255}
\* low bytes of the raw codes given to the code formatter; every high byte
DtcLowBytes == {0, 35, 255}
RawCodes == {hi * 256 + lo : hi \in 0..255, lo \in DtcLowBytes}

\* payloads of up to MaxDtcPairs pairs
DtcPayloads ==
    UNION { [1..(2 * n) -> DtcBytes] : n \in 0..MaxDtcPairs }

\* what an ECU may answer to a Mode 04 request: nothing, the positive
\* response 0x44, or a negative response 0x7F
ClearResponses == {<<>>, <<68>>, <<127>>}

DtcReturn(op, payload, ret, dtcs) ==
    /\ dtc.op = "none"
    /\ dtc' = [op |-> op, payload |-> payload, ret |-> ret, dtcs |-> dtcs]

\* the formatter of diag_read_dtcs applied to a raw code
FormatCode ==
    /\ \E raw_code \in RawCodes \ {0} :
           DtcReturn("format", <<raw_code \div 256, raw_code % 256>>, 0,
                     <<[code |-> DtcCodeText(raw_code), raw_code |-> raw_code,
                        status |-> -1]>>)
    /\ UNCHANGED <<sessVars, tpVars, monVars, extVars, proto, sct>>

\* diag_read_dtcs; the native read reports one message or the byte count
ReadDtcs ==
    /\ dtc.op = "none"
    /\ \E env \in SendEnvs(FreeIds(native_channels), {J2534_STATUS_NOERROR}, {-1}) :
       \E rd \in {0, -1} :
       \E response \in DtcPayloads \ {<<>>} :
       \E msg_count \in {1, Len(response)} :
           LET r == diag_read_dtcs(obd_state, Adapter, env, rd, response, msg_count)
           IN  /\ SetAdapter(r.ad)
               /\ DtcReturn("diag_read_dtcs", response, r.ret, r.dtcs)
    /\ UNCHANGED <<obd_state, current_health, last, tpVars, monVars, extVars, proto, sct>>

\* dtc_read_current
ReadCurrent ==
    /\ \E data \in {NULL, 1} :
       \E device \in {NULL, 1} :
       \E rd \in {0, -1} :
       \E buffer \in DtcPayloads :
           LET r == dtc_read_current(data, device, rd, buffer, Len(buffer))
           IN  DtcReturn("dtc_read_current", buffer, r.ret, r.dtcs)
    /\ UNCHANGED <<sessVars, tpVars, monVars, extVars, proto, sct>>

\* diag_clear_dtcs
ClearDtcs ==
    /\ dtc.op = "none"
    /\ \E env \in SendEnvs(FreeIds(native_channels), {J2534_STATUS_NOERROR}, {-1}) :
       \E ecu \in ClearResponses :
           LET r == diag_clear_dtcs(obd_state, Adapter, env)
           IN  /\ SetAdapter(r.ad)
               /\ DtcReturn("diag_clear_dtcs", ecu, r.ret, <<>>)
    /\ UNCHANGED <<obd_state, current_health, last, tpVars, monVars, extVars, proto, sct>>

\* dtc_clear_all
ClearAll ==
    /\ \E device \in {NULL, 1} :
       \E wr \in {0, -1} :
       \E ecu \in ClearResponses :
           DtcReturn("dtc_clear_all", ecu, dtc_clear_all(device, wr), <<>>)
    /\ UNCHANGED <<sessVars, tpVars, monVars, extVars, proto, sct>>

\* monitor_clear_dtc
MonitorClearDtc ==
    /\ \E wr \in {0, -1} :
       \E ecu \in ClearResponses :
           DtcReturn("monitor_clear_dtc", ecu, monitor_clear_dtc(wr), <<>>)
    /\ UNCHANGED <<sessVars, tpVars, monVars, extVars, proto, sct>>

\* monitor_check_dtc
MonitorCheckDtc ==
    /\ \E rd \in {0, -1} :
       \E data \in DtcPayloads :
           LET r == monitor_check_dtc(rd, data, Len(data))
           IN  DtcReturn("monitor_check_dtc", data, r.ret, r.dtcs)
    /\ UNCHANGED <<sessVars, tpVars, monVars, extVars, proto, sct>>

\* the caller is done with the result
DtcIdle ==
    /\ dtc.op # "none"
    /\ dtc' = [op |-> "none", payload |-> <<>>, ret |-> 0, dtcs |-> <<>>]
    /\ UNCHANGED <<sessVars, tpVars, monVars, extVars, proto, sct>>

NextDtc ==
    \/ FormatCode
    \/ ReadDtcs
    \/ ReadCurrent
    \/ ClearDtcs
    \/ ClearAll
    \/ MonitorClearDtc
    \/ MonitorCheckDtc
    \/ DtcIdle

SpecDtc == Init /\ [][NextDtc]_vars

(* ------------------------ framing specification ----------------------- *)
\* longest payload given to j1850_send_message
MaxJ1850Len == 10
\* KWP_SID_START_DIAGNOSTIC, KWP_SID_READ_DATA
KwpServices == {16, 34}
\* payload lengths given to kwp_send_request, up to one past the limit
KwpLengths == {0, 1, 2, KWP_MAX_LENGTH - KWP_HEADER_LENGTH,
               KWP_MAX_LENGTH - KWP_HEADER_LENGTH + 1}

\* buffers the native read may deliver: a first byte (0x22, 0x41, 0x50, 0x62,
\* 0x7F), data bytes and a last byte that is the sum of the bytes before it
\* (t = 0) or that sum plus one (t = 1)
RxFirstBytes == {34, 65, 80, 98, 127}
RxData == {<<>>, <<12>>, <<12, 32>>}
RxBuffers ==
    { <<f>> \o d \o <<(calculate_checksum(<<f>> \o d) + t) % 256>> :
          f \in RxFirstBytes, d \in RxData, t \in {0, 1} }

\* kwp_send_request; request remembers the service id of the last request the
\* adapter took, data holds the service id and the payload of this call
KwpSend ==
    /\ \E service_id \in KwpServices :
       \E length \in KwpLengths :
       \E wr \in {0, -1} :
           LET data == Payload(1, length)
               r == kwp_send_request(service_id, data, length, wr)
           IN  proto' = [op |-> "kwp_send_request",
                         request |-> IF r.ret = 0 THEN service_id ELSE proto.request,
                         data |-> <<service_id>> \o data, written |-> r.written,
                         buffer |-> <<>>, msg_count |-> 0, ret |-> r.ret,
                         payload |-> <<>>]
    /\ UNCHANGED <<sessVars, tpVars, monVars, extVars, dtc, sct>>

\* kwp_receive_response; a native read that succeeds reports one message or
\* the number of bytes it delivered
KwpReceive ==
    /\ \E rd \in {0, -1} :
       \E buffer \in RxBuffers :
       \E msg_count \in {1, Len(buffer)} :
           LET r == kwp_receive_response(rd, buffer, msg_count)
           IN  proto' = [op |-> "kwp_receive_response", request |-> proto.request,
                         data |-> <<>>, written |-> <<>>,
                         buffer |-> IF rd = 0 THEN buffer ELSE <<>>,
                         msg_count |-> IF rd = 0 THEN msg_count ELSE 0,
                         ret |-> r.ret, payload |-> r.payload]
    /\ UNCHANGED <<sessVars, tpVars, monVars, extVars, dtc, sct>>

\* j1850_send_message
J1850Send ==
    /\ \E length \in 0..MaxJ1850Len :
       \E wr \in {0, -1} :
           LET data == Payload(1, length)
               r == j1850_send_message(data, length, wr)
           IN  proto' = [op |-> "j1850_send_message", request |-> proto.request,
                         data |-> data, written |-> r.written,
                         buffer |-> <<>>, msg_count |-> 0, ret |-> r.ret,
                         payload |-> <<>>]
    /\ UNCHANGED <<sessVars, tpVars, monVars, extVars, dtc, sct>>

\* the 11 bytes of the receive buffer after the native read: a response or a
\* request type byte, then the addresses and the data
J1850RxBuffers ==
    {<<t>> \o Payload(7, J1850_MAX_LENGTH - 1) : t \in {J1850_TYPE_RESPONSE, J1850_TYPE_REQUEST}}

\* the count the native read leaves in msg_count: messages read (0 or 1), or
\* the bytes delivered (up to the 11 of the buffer, or more than fit)
J1850Counts == {0, 1, J1850_HEADER_LENGTH, 5, J1850_MAX_LENGTH, J1850_MAX_LENGTH + 1}

\* j1850_receive_message
J1850Receive ==
    /\ \E rd \in {0, -1} :
       \E buffer \in J1850RxBuffers :
       \E msg_count \in J1850Counts :
       \E crash \in BOOLEAN :
           LET r == j1850_receive_message(rd, buffer, msg_count, crash)
           IN  proto' = [op |-> "j1850_receive_message", request |-> proto.request,
                         data |-> <<>>, written |-> <<>>,
                         buffer |-> IF rd = 0 THEN buffer ELSE <<>>,
                         msg_count |-> IF rd = 0 THEN msg_count ELSE 0,
                         ret |-> r.ret, payload |-> r.payload,
                         length |-> r.length, fault |-> r.fault]
    /\ UNCHANGED <<sessVars, tpVars, monVars, extVars, dtc, sct>>

NextFraming ==
    \/ KwpSend
    \/ KwpReceive
    \/ J1850Send
    \/ J1850Receive

SpecFraming == Init /\ [][NextFraming]_vars

(* -------------------------- SCT specification -------------------------- *)
\* the cut and resume thresholds of the device are drawn from 0..MaxThreshold
MaxThreshold == 2

FuelTables ==
    { [volumetricEfficiency |-> [i \in 1..24 |-> t[1]],
       afrTargets |-> [idle |-> t[2], wot |-> t[3]]] :
          t \in {<<1, 14, 12>>, <<3, 14, 12>>, <<1, 14, 16>>} }

BoostControls ==
    [maxBoost : {30, 60, 61},
     targetBoost : {25, 35},
     safety : [cutThreshold : 0..MaxThreshold, resumeThreshold : 0..MaxThreshold]]

\* the tunings a device may hold
Tunings == [fuelManagement : FuelTables, boostControl : BoostControls]

\* the tuning the device holds does not change once the program has met it
DeviceTunings == IF sct.tuning = <<>> THEN Tunings ELSE {sct.tuning[1]}

\* firmware versions, <<>> for a text that does not parse
Versions == {<<>>, <<1, 9, 9>>, <<2, 8, 5>>, <<2, 9, 0>>, <<3, 0, 0>>}

SctEnvs ==
    [get_parameters : {0, -1}, check_firmware_version : {0, -1},
     version : Versions, start_monitoring : {0, -1},
     get_safety_limits : {0, -1}, set_safety_limits : {0, -1}]

SctConfigs == [high_speed_logging : BOOLEAN, safety_features : BOOLEAN]

\* sct_init_device
SctInit ==
    /\ \E config \in SctConfigs :
       \E env \in SctEnvs :
       \E tuning \in DeviceTunings :
           sct' = [op |-> "sct_init_device", ret |-> sct_init_device(config, env),
                   current_config |-> <<config>>, rd |-> 0, tuning |-> <<tuning>>,
                   limits_applied |-> SafetyLimitsApplied(config, env)]
    /\ UNCHANGED <<sessVars, tpVars, monVars, extVars, dtc, proto>>

\* sct_verify_tuning
SctVerifyTuning ==
    /\ \E rd \in {0, -1} :
       \E tuning \in DeviceTunings :
           sct' = [op |-> "sct_verify_tuning", ret |-> sct_verify_tuning(rd, tuning),
                   current_config |-> sct.current_config, rd |-> rd,
                   tuning |-> <<tuning>>, limits_applied |-> FALSE]
    /\ UNCHANGED <<sessVars, tpVars, monVars, extVars, dtc, proto>>

NextSct ==
    \/ SctInit
    \/ SctVerifyTuning

SpecSct == Init /\ [][NextSct]_vars

(* ------------------------- real-time monitor --------------------------- *)
MaxBufferSize == 2
MaxRounds == 4

MonitorPidSets == {<<>>, <<12>>, <<12, 13>>, <<13, 12>>}

MonitorConfigs ==
    {[buffer_size |-> b, pids |-> p, log_to_file |-> 0] :
        b \in 0..MaxBufferSize, p \in MonitorPidSets}
    \cup {[buffer_size |-> 1, pids |-> <<12>>, log_to_file |-> 1]}

\* the data bytes read_pid hands back when it succeeds
ReadDatas == {<<32, 0>>}

ReadResults(ms) ==
    [1..Len(ms.config.pids) -> {<<>>} \cup {<<d>> : d \in ReadDatas}]

UbOutcomes == [crash : BOOLEAN, head : 0..MaxBufferSize]

MonReturn(op, ret, fault) ==
    mon' = [op |-> op, ret |-> ret, round |-> mon.round, fault |-> fault,
            requests |-> <<>>, reads |-> <<>>]

MonitorInit ==
    /\ ~mon.fault
    /\ \E config \in {<<>>} \cup {<<c>> : c \in MonitorConfigs} :
       \E malloc_ok \in BOOLEAN :
       \E fopen_ok \in BOOLEAN :
           LET r == monitor_init(monitor_state, config, malloc_ok, fopen_ok)
           IN  /\ monitor_state' = r.ms
               /\ MonReturn("monitor_init", r.ret, FALSE)
    /\ UNCHANGED <<sessVars, tpVars, extVars, auxVars>>

MonitorStart ==
    /\ ~mon.fault
    /\ monitor_state' = monitor_start(monitor_state).ms
    /\ MonReturn("monitor_start", 0, FALSE)
    /\ UNCHANGED <<sessVars, tpVars, extVars, auxVars>>

MonitorStop ==
    /\ ~mon.fault
    /\ monitor_state' = monitor_stop(monitor_state).ms
    /\ MonReturn("monitor_stop", 0, FALSE)
    /\ UNCHANGED <<sessVars, tpVars, extVars, auxVars>>

\* one tick of the monitoring timer
MonitorCollect ==
    /\ ~mon.fault
    /\ mon.round < MaxRounds
    /\ \E reads \in ReadResults(monitor_state) :
       \E ub \in UbOutcomes :
           LET round == IF monitor_state.running = 0
                        THEN mon.round ELSE mon.round + 1
               r == monitor_collect_data(monitor_state, reads, round, ub)
           IN  /\ monitor_state' = r.ms
               /\ mon' = [op |-> "monitor_collect_data", ret |-> 0,
                          round |-> round, fault |-> r.fault,
                          requests |-> r.requests,
                          reads |-> IF r.requests = <<>> THEN <<>> ELSE reads]
    /\ UNCHANGED <<sessVars, tpVars, extVars, auxVars>>

MonitorClearHistory ==
    /\ ~mon.fault
    /\ \E crash \in BOOLEAN :
           LET r == monitor_clear_history(monitor_state, crash)
           IN  /\ monitor_state' = r.ms
               /\ MonReturn("monitor_clear_history", r.ret, r.fault)
    /\ UNCHANGED <<sessVars, tpVars, extVars, auxVars>>

NextMonitor ==
    \/ MonitorInit
    \/ MonitorStart
    \/ MonitorStop
    \/ MonitorCollect
    \/ MonitorClearHistory

SpecMonitor == Init /\ [][NextMonitor]_vars

(* --------------------------- log specification ------------------------- *)
\* largest capacity given to log_init, and most entries written after it
MaxCapacity == 3
MaxWrites == 5

\* log_init; the client gives up the buffer when it fails
LogInit ==
    /\ ~lg.fault
    /\ \E buffer \in {<<>>, <<log_buffer>>} :
       \E capacity \in 0..MaxCapacity :
       \E malloc_ok \in BOOLEAN :
           LET r == log_init(buffer, capacity, malloc_ok)
           IN  /\ log_buffer' = IF buffer = <<>> THEN log_buffer ELSE r.buffer[1]
               /\ lg' = [op |-> "log_init", ret |-> r.ret, entry |-> <<>>,
                         writes |-> IF r.ret = 0 THEN 0 ELSE lg.writes,
                         reads |-> IF r.ret = 0 THEN 0 ELSE lg.reads,
                         inited |-> IF buffer = <<>> THEN lg.inited ELSE r.ret = 0,
                         fault |-> FALSE]
    /\ UNCHANGED <<sessVars, tpVars, monVars, collector, latest, auxVars>>

\* log_write of the next entry; entries carry the number of their write
LogWrite ==
    /\ lg.inited
    /\ ~lg.fault
    /\ lg.writes < MaxWrites
    /\ \E buffer \in {<<>>, <<log_buffer>>} :
       \E entry \in {<<>>, <<[serial |-> lg.writes + 1]>>} :
           LET r == log_write(buffer, entry)
               wrote == buffer # <<>> /\ entry # <<>> /\ ~r.fault
           IN  /\ log_buffer' = IF buffer = <<>> THEN log_buffer ELSE r.buffer[1]
               /\ lg' = [op |-> "log_write", ret |-> 0,
                         entry |-> IF wrote THEN entry ELSE <<>>,
                         writes |-> IF wrote THEN lg.writes + 1 ELSE lg.writes,
                         reads |-> lg.reads, inited |-> lg.inited,
                         fault |-> r.fault]
    /\ UNCHANGED <<sessVars, tpVars, monVars, collector, latest, auxVars>>

\* log_read
LogRead ==
    /\ lg.inited
    /\ ~lg.fault
    /\ \E buffer \in {<<>>, <<log_buffer>>} :
       \E entry \in {<<>>, <<UninitEntry>>} :
           LET r == log_read(buffer, entry)
           IN  /\ log_buffer' = IF buffer = <<>> THEN log_buffer ELSE r.buffer[1]
               /\ lg' = [op |-> "log_read", ret |-> r.ret, entry |-> r.entry,
                         writes |-> lg.writes,
                         reads |-> IF r.ret = 0 THEN lg.reads + 1 ELSE lg.reads,
                         inited |-> lg.inited, fault |-> FALSE]
    /\ UNCHANGED <<sessVars, tpVars, monVars, collector, latest, auxVars>>

\* log_free
LogFree ==
    /\ lg.inited
    /\ ~lg.fault
    /\ log_buffer' = log_free(<<log_buffer>>)[1]
    /\ lg' = [op |-> "log_free", ret |-> 0, entry |-> <<>>,
              writes |-> lg.writes, reads |-> lg.reads, inited |-> lg.inited,
              fault |-> FALSE]
    /\ UNCHANGED <<sessVars, tpVars, monVars, collector, latest, auxVars>>

NextLog ==
    \/ LogInit
    \/ LogWrite
    \/ LogRead
    \/ LogFree

SpecLog == Init /\ [][NextLog]_vars

(* ------------------ monitoring task and status query ------------------- *)
\* the client initialises the monitor once, with a history of 1 to
\* MaxBufferSize + 1 samples, and starts it; the monitoring task then runs
\* monitor_collect_data statement by statement while status queries call
\* monitor_get_latest
RingConfigs ==
    {[buffer_size |-> b, pids |-> <<12>>, log_to_file |-> 0] :
        b \in 1..(MaxBufferSize + 1)}

LatestInit ==
    /\ monitor_state.history = <<>>
    /\ \E c \in RingConfigs :
       \E malloc_ok \in BOOLEAN :
           LET r == monitor_init(monitor_state, <<c>>, malloc_ok, TRUE)
           IN  /\ monitor_state' = r.ms
               /\ MonReturn("monitor_init", r.ret, FALSE)
    /\ UNCHANGED <<sessVars, tpVars, extVars, auxVars>>

LatestStart ==
    /\ monitor_state.history # <<>>
    /\ monitor_state.running = 0
    /\ monitor_state' = monitor_start(monitor_state).ms
    /\ MonReturn("monitor_start", 0, FALSE)
    /\ UNCHANGED <<sessVars, tpVars, extVars, auxVars>>

LatestStop ==
    /\ monitor_state.running = 1
    /\ monitor_state' = monitor_stop(monitor_state).ms
    /\ MonReturn("monitor_stop", 0, FALSE)
    /\ UNCHANGED <<sessVars, tpVars, extVars, auxVars>>

\* if (!running) return; sample = &history[history_head]; sample->timestamp = ...
CollectBegin ==
    /\ collector.pc = "idle"
    /\ mon.round < MaxRounds
    /\ monitor_state.running = 1
    /\ SlotInBounds(monitor_state)
    /\ collector' = [pc |-> "fill", slot |-> monitor_state.history_head, i |-> 0]
    /\ monitor_state' =
           [monitor_state EXCEPT
               !.history = <<[monitor_state.history[1] EXCEPT
                                ![monitor_state.history_head + 1].round = mon.round + 1]>>]
    /\ UNCHANGED <<sessVars, tpVars, mon, log_buffer, lg, latest, auxVars>>

\* one pass of the for loop: read_pid for pids[i], then values[i] and status[i]
CollectPid ==
    /\ collector.pc = "fill"
    /\ collector.i < Len(monitor_state.config.pids)
    /\ \E read \in {<<>>} \cup {<<d>> : d \in ReadDatas} :
           LET i == collector.i + 1
               value == IF read # <<>>
                        THEN process_pid_data(monitor_state.config.pids[i], read[1])
                        ELSE <<0, 1>>
               status == IF read # <<>> THEN 1 ELSE 0
           IN  monitor_state' =
                   [monitor_state EXCEPT
                       !.history = <<[monitor_state.history[1] EXCEPT
                                        ![collector.slot + 1] =
                                            SetSampleAt(@, i, value, status)]>>]
    /\ collector' = [collector EXCEPT !.i = collector.i + 1]
    /\ UNCHANGED <<sessVars, tpVars, mon, log_buffer, lg, latest, auxVars>>

\* "Update history head": history_head and history_size
CollectAdvance ==
    /\ collector.pc = "fill"
    /\ collector.i = Len(monitor_state.config.pids)
    /\ monitor_state' =
           [monitor_state EXCEPT
               !.history_head = (monitor_state.history_head + 1)
                                    % monitor_state.config.buffer_size,
               !.history_size = IF monitor_state.history_size
                                      < monitor_state.config.buffer_size
                                THEN monitor_state.history_size + 1
                                ELSE monitor_state.history_size]
    /\ collector' = CollectorIdle
    /\ mon' = [op |-> "monitor_collect_data", ret |-> 0, round |-> mon.round + 1,
               fault |-> FALSE, requests |-> RoundRequests(monitor_state),
               reads |-> <<>>]
    /\ UNCHANGED <<sessVars, tpVars, log_buffer, lg, latest, auxVars>>

\* a status query; filling is the slot the monitoring task is writing at the
\* time of the call, newest the number of the last completed round
GetLatest ==
    /\ \E sample \in {<<>>, <<UninitSample>>} :
           LET r == monitor_get_latest(monitor_state, sample)
           IN  latest' = [ret |-> r.ret, idx |-> r.idx, sample |-> r.sample,
                          filling |-> IF collector.pc = "idle"
                                      THEN <<>> ELSE <<collector.slot>>,
                          newest |-> mon.round, fault |-> r.fault]
    /\ UNCHANGED <<sessVars, tpVars, monVars, log_buffer, lg, collector, auxVars>>

NextLatest ==
    \/ LatestInit
    \/ LatestStart
    \/ LatestStop
    \/ CollectBegin
    \/ CollectPid
    \/ CollectAdvance
    \/ GetLatest

SpecLatest == Init /\ [][NextLatest]_vars

(* =============================== claims ================================ *)
\* the probe of a negotiation that got past J2534_Initialize
CanProbe == last.reqs[1]
NegotiationRan == last.op = "obd2_protocol_init" /\ last.init = "ok"

\* C1: whenever the adapter connects and accepts the probe on CAN,
\* obd2_protocol_init returns success with CAN (500 kbps) active and the
\* session initialized, and ISO 9141-2 is never attempted.
C1_CanFirst ==
    (NegotiationRan /\ CanProbe.fails = 0)
        => /\ last.ret = 0
           /\ obd_state.initialized = 1
           /\ obd_state.protocol = J2534_PROTOCOL_CAN
           /\ obd_state.baudrate = CAN_BAUDRATE
           /\ Len(last.reqs) = 1

\* C2: if the adapter refuses every CAN probe attempt but accepts the
\* ISO 9141-2 connection and probe, obd2_protocol_init returns success with
\* protocol 3 at 10400 baud active and the session initialized.
C2_IsoFallback ==
    (/\ NegotiationRan
     /\ CanProbe.fails >= DEFAULT_RETRY_COUNT
     /\ Len(last.reqs) = 2
     /\ last.reqs[2].fails = 0)
        => /\ last.ret = 0
           /\ obd_state.initialized = 1
           /\ obd_state.protocol = 3
           /\ obd_state.baudrate = 10400

\* C3: a negotiation that fails leaves the session uninitialized, and while
\* the session is uninitialized every obd2_send_request and
\* obd2_receive_response returns an error, makes no connect attempt and
\* leaves the adapter and the native layer as they were.
C3_Uninitialized ==
    [][ /\ (last'.op = "obd2_protocol_init" /\ last'.ret = -1)
            => obd_state'.initialized = 0
        /\ (/\ obd_state.initialized = 0
            /\ last'.op \in {"obd2_send_request", "obd2_receive_response"})
            => /\ last'.ret = -1
               /\ \A i \in DOMAIN last'.reqs : last'.reqs[i].attempts = 0
               /\ UNCHANGED <<obd_state, j2534_handle, current_channel,
                              native_channels, native_devices>> ]_vars

\* C3 witness: after a negotiation that reached the probes and failed, with the
\* library loaded, a non-null request was rejected.
C3_Witness ==
    /\ last.op = "obd2_send_request"
    /\ last.reqs[1].req # NullRequest
    /\ last.ret = -1
    /\ obd_state.initialized = 0
    /\ obd_state.retry_count = DEFAULT_RETRY_COUNT
    /\ j2534_handle # NULL

\* C4: obd2_send_request, obd2_receive_response and diag_get_system_health
\* never change the active protocol, the baud rate or the initialized flag.
C4_NoImplicitRenegotiation ==
    [][ last'.op \in {"obd2_send_request", "obd2_receive_response",
                      "diag_get_system_health"}
            => /\ obd_state'.protocol = obd_state.protocol
               /\ obd_state'.baudrate = obd_state.baudrate
               /\ obd_state'.initialized = obd_state.initialized ]_vars

\* C5: at most one channel is open in the native layer at any time.
C5_SingleChannel == Cardinality(native_channels) <= 1

\* C6: current_channel is non-zero exactly when a native channel is open, and
\* it names that channel.
C6_NoLeak ==
    /\ (current_channel # 0) <=> (native_channels # {})
    /\ current_channel # 0 => native_channels = {current_channel}

\* C7: a request during which the adapter refuses every connect attempt makes
\* exactly retry_count connect attempts and returns a failure.
C7_ExactRetries ==
    \A i \in DOMAIN last.reqs :
        (/\ last.reqs[i].req # NullRequest
         /\ last.reqs[i].fails >= obd_state.retry_count)
            => /\ last.reqs[i].attempts = obd_state.retry_count
               /\ last.reqs[i].ret = -1

(* ---------------------------- ISO-TP claims ---------------------------- *)
RECURSIVE ConcatData(_, _)
\* the data bytes (after the PCI byte) of frames k.. of fs
ConcatData(fs, k) ==
    IF k > Len(fs) THEN <<>>
    ELSE SubSeq(fs[k].data, 2, fs[k].dlc) \o ConcatData(fs, k + 1)

\* receiver side: payload of a frame sequence
Reassemble(fs) ==
    IF fs[1].data[1] \div 16 = 0
    THEN SubSeq(fs[1].data, 2, fs[1].dlc)
    ELSE SubSeq(fs[1].data, 3, 8) \o ConcatData(fs, 2)

\* receiver side: the length the first frame declares
DeclaredLength(fs) ==
    IF fs[1].data[1] \div 16 = 0
    THEN fs[1].data[1]
    ELSE (fs[1].data[1] % 16) * 256 + fs[1].data[2]

SentAll ==
    /\ tp_state = "returned"
    /\ tp_ret = 0
    /\ Len(tp_data) > 0
    /\ Len(tp_data) <= ISO_TP_MAX_LENGTH

\* C9: the frames emitted for a payload P, 0 < len(P) <= 4095, reassemble to
\* exactly P, and the declared length is len(P).
C9_RoundTrip ==
    SentAll => /\ Reassemble(tp_frames) = tp_data
               /\ DeclaredLength(tp_frames) = Len(tp_data)

C11_CodeText ==
    dtc.op = "format" =>
        LET e == dtc.dtcs[1]
        IN  /\ Len(e.code) = 5
            /\ e.code[1] = (<<"P", "C", "B", "U">>)[(e.raw_code \div 16384) + 1]
            /\ \A k \in 1..4 :
                   e.code[k + 1] =
                       HexDigits[(((e.raw_code % 16384) \div (16 ^ (4 - k))) % 16) + 1]

\* the non-zero pairs of a payload, in order, as 16-bit values
RECURSIVE NonZeroPairs(_)
NonZeroPairs(payload) ==
    IF Len(payload) < 2 THEN <<>>
    ELSE LET raw == payload[1] * 256 + payload[2]
             rest == NonZeroPairs(SubSeq(payload, 3, Len(payload)))
         IN  IF raw = 0 THEN rest ELSE <<raw>> \o rest

\* C12: a Mode 03 payload that was read yields one entry per non-zero pair, in
\* payload order, and none for a 0x0000 pair; [0x01,0x23,0x00,0x00] yields
\* exactly the entry "P0123".
C12_DecodePairs ==
    (dtc.op \in {"diag_read_dtcs", "dtc_read_current"} /\ dtc.ret = 0) =>
        /\ Len(dtc.dtcs) = Len(NonZeroPairs(dtc.payload))
        /\ \A k \in 1..Len(dtc.dtcs) :
               LET raw == NonZeroPairs(dtc.payload)[k]
               IN  dtc.dtcs[k].code =
                       <<(<<"P", "C", "B", "U">>)[(raw \div 16384) + 1]>>
                           \o HexText(raw % 16384, 4)
        /\ dtc.payload = <<1, 35, 0, 0>>
               => [k \in 1..Len(dtc.dtcs) |-> dtc.dtcs[k].code]
                      = << <<"P", "0", "1", "2", "3">> >>

\* C13: a clear entry point reports success exactly when the ECU's response
\* carries the positive-response byte 0x44.
C13_ClearNeedsPositiveResponse ==
    dtc.op \in {"diag_clear_dtcs", "dtc_clear_all", "monitor_clear_dtc"} =>
        ((dtc.ret = 0) <=> (dtc.payload = <<68>>))

(* --------------------------- framing claims ---------------------------- *)
\* C14: every KWP2000 message handed to the adapter is a header, the service
\* id and the payload, followed by one checksum byte equal to the sum of all
\* the bytes before it modulo 256.
C14_KwpChecksum ==
    (proto.op = "kwp_send_request" /\ proto.written # <<>>) =>
        LET m == proto.written[1]
            body == SubSeq(m, 1, Len(m) - 1)
        IN  /\ Len(m) >= Len(proto.data) + 1
            /\ SubSeq(body, Len(body) - Len(proto.data) + 1, Len(body)) = proto.data
            /\ m[Len(m)] = calculate_checksum(body)

\* the last byte of the received buffer is not the sum of the bytes before it
Tampered ==
    /\ proto.buffer # <<>>
    /\ proto.buffer[Len(proto.buffer)] #
           calculate_checksum(SubSeq(proto.buffer, 1, Len(proto.buffer) - 1))

\* C15: kwp_receive_response returns an error and delivers no payload for
\* every received buffer whose last byte differs from the sum of the
\* preceding bytes modulo 256.
C15_KwpRejectsTampered ==
    (proto.op = "kwp_receive_response" /\ Tampered) =>
        (proto.ret = -1 /\ proto.payload = <<>>)

\* C16: j1850_send_message rejects a payload of more than 8 bytes and writes
\* nothing; a payload of 0..8 bytes is written as one frame of a 3-byte header
\* followed by the payload, at most 11 bytes long.
C16_J1850Frame ==
    proto.op = "j1850_send_message" =>
        IF Len(proto.data) > 8
        THEN proto.ret = -1 /\ proto.written = <<>>
        ELSE /\ Len(proto.written) = 1
             /\ Len(proto.written[1]) = 3 + Len(proto.data)
             /\ Len(proto.written[1]) <= 11
             /\ SubSeq(proto.written[1], 4, Len(proto.written[1])) = proto.data

\* C16 witness: a payload of 9 bytes was rejected
C16_Witness ==
    /\ proto.op = "j1850_send_message"
    /\ Len(proto.data) = 9
    /\ proto.ret = -1
    /\ proto.written = <<>>

\* C17: a message returned as a valid response to a request has as first byte
\* the request's service id (mode) plus 0x40.
C17_ResponseMode ==
    (/\ proto.op = "kwp_receive_response"
     /\ proto.request # -1
     /\ proto.ret = 0)
        => proto.buffer[1] = (proto.request + 64) % 256

(* --------------------------- end-to-end claim -------------------------- *)
\* C18: with the library loaded and the adapter accepting the connection, the
\* Mode 01 / PID 0x0C request of main is encoded and accepted and an RPM is
\* decoded from the two data bytes of the response, with
\* 4 * RPM = 256 * msb + lsb; the response bytes 0x20, 0x00 give 2048.
C18_RpmEndToEnd ==
    (/\ last.op = "main"
     /\ last.ret = 0
     /\ j2534_handle # NULL
     /\ last.reqs[1].fails = 0)
        => /\ last.reqs[1].ret = 0
           /\ last.rpm = << <<2048, 0>> >>
           /\ 4 * last.rpm[1][1] + last.rpm[1][2] = (256 * 32) + 0

(* ------------------------------ SCT claims ----------------------------- *)
\* the boost parameters of the device's tuning
Boost == sct.tuning[1].boostControl

\* sct_verify_tuning read the tuning, and its fuel parameters are in range
BoostChecked ==
    /\ sct.op = "sct_verify_tuning"
    /\ sct.rd = 0
    /\ verify_fuel_parameters(sct.tuning[1].fuelManagement) = 0

C20_ThresholdsOrdered ==
    (sct.op = "sct_init_device" /\ sct.ret = 0) =>
        Boost.safety.resumeThreshold < Boost.safety.cutThreshold

\* C21: for every value of the configuration flags and every outcome of the
\* device calls, sct_init_device returns 0 only if the safety limits were read
\* and applied.
C21_SafetyStepMandatory ==
    (sct.op = "sct_init_device" /\ sct.ret = 0) => sct.limits_applied

(* --------------------------- adapter claims ---------------------------- *)
\* C22: a failure reported by the native layer to J2534_Connect or
\* J2534_Disconnect is returned to the caller as the same error code.
C22_NativeErrorVerbatim ==
    (/\ last.op \in {"J2534_Connect", "J2534_Disconnect"}
     /\ last.native # <<>>
     /\ last.native[1] # J2534_STATUS_NOERROR)
        => last.ret = last.native[1]

\* C23: device_init on a null configuration or on a device type without an
\* adapter returns -1 and calls no adapter function; for a type with an
\* adapter it calls that adapter's init, once, and returns its result.
C23_DeviceInit ==
    last.op = "device_init" =>
        IF last.config = <<>>
        THEN last.ret = -1 /\ last.calls = <<>>
        ELSE LET type == last.config[1].type
             IN  IF type \notin {DEVICE_ELM327, DEVICE_ARDUINO, DEVICE_ESP32, DEVICE_SCT}
                 THEN last.ret = -1 /\ last.calls = <<>>
                 ELSE /\ Len(last.calls) = 1
                      /\ last.calls[1].fn =
                             CASE type = DEVICE_ELM327 -> "elm327_init"
                               [] type = DEVICE_ARDUINO -> "arduino_init"
                               [] type = DEVICE_ESP32 -> "esp32_init"
                               [] type = DEVICE_SCT -> "sct_init_device"
                      /\ last.ret = last.calls[1].ret

\* C23 witness: the simulator type, which has no adapter, was refused
C23_Witness ==
    /\ last.op = "device_init"
    /\ last.config = <<[type |-> DEVICE_SIMULATOR]>>
    /\ last.ret = -1
    /\ last.calls = <<>>

\* C24: when the library cannot be loaded, a PassThru function is missing or
\* PassThruOpen fails, J2534_Initialize fails and leaves the handle NULL, and
\* obd2_protocol_init returns failure without sending any probe; while the
\* handle is NULL every J2534_Connect and J2534_Disconnect fails without a
\* native call.
C24_AdapterErrorFatal ==
    [][ /\ (/\ last'.op \in {"J2534_Initialize", "obd2_protocol_init"}
            /\ last'.init \in InitOutcomes \ {"ok"})
               => /\ last'.ret = -1
                  /\ j2534_handle' = NULL
                  /\ last'.reqs = <<>>
                  /\ UNCHANGED <<current_channel, native_channels>>
        /\ (/\ j2534_handle = NULL
            /\ last'.op \in {"J2534_Connect", "J2534_Disconnect"})
               => /\ last'.ret = -1
                  /\ last'.native_calls = 0
                  /\ UNCHANGED <<j2534_handle, current_channel,
                                 native_channels, native_devices>> ]_vars

\* C24 witness: after an initialization that had opened a device, a later
\* one failed, and a connect was then refused without a native call
C24_Witness ==
    /\ last.op = "J2534_Connect"
    /\ j2534_handle = NULL
    /\ native_devices > 0
    /\ last.ret = -1
    /\ last.native_calls = 0

\* C25: the history is a ring of fixed capacity: once monitor_init has
\* allocated it, history_size <= buffer_size and history_head < buffer_size
\* after any sequence of rounds and clears.
C25_RingBounds ==
    (/\ monitor_state.history # <<>>
     /\ monitor_state.history_valid
     /\ ~mon.fault)
        => /\ monitor_state.history_size <= monitor_state.config.buffer_size
           /\ monitor_state.history_head < monitor_state.config.buffer_size

\* the rounds of the samples the ring retains, oldest first
RetainedRounds(ms) ==
    [k \in 1..ms.history_size |->
        ms.history[1][((ms.history_head + ms.config.buffer_size
                          - ms.history_size + k - 1) % ms.config.buffer_size) + 1].round]

\* C26: a round that runs requests the configured PIDs one at a time in the
\* configured order, writes exactly one sample into the history, and the
\* retained samples stay in the order of their rounds.
C26_RoundOrder ==
    [][ (/\ mon'.op = "monitor_collect_data"
         /\ monitor_state.running = 1)
           => /\ mon'.requests = [i \in 1..Len(monitor_state.config.pids) |->
                                     [mode |-> 1, pid |-> monitor_state.config.pids[i]]]
              /\ monitor_state'.history # <<>>
              /\ monitor_state.history # <<>>
              /\ Len(monitor_state'.history[1]) = Len(monitor_state.history[1])
              /\ Cardinality({i \in 1..Len(monitor_state.history[1]) :
                     monitor_state'.history[1][i] # monitor_state.history[1][i]}) = 1
              /\ monitor_state'.history_size <= monitor_state'.config.buffer_size
              /\ LET rounds == RetainedRounds(monitor_state')
                 IN  /\ \A k \in 1..(Len(rounds) - 1) : rounds[k] < rounds[k + 1]
                     /\ Len(rounds) > 0
                     /\ rounds[Len(rounds)] = mon'.round ]_vars

\* equality of two float values given as <<numerator, denominator>>
FloatEq(a, b) == a[1] * b[2] = b[1] * a[2]

\* C27: for every PID and data bytes read in a round, the value the
\* freeze-frame decode computes equals the value process_pid_data stored in
\* the sample.
C27_SharedConversion ==
    (/\ mon.op = "monitor_collect_data"
     /\ mon.reads # <<>>)
        => \A i \in 1..Len(mon.reads) :
              mon.reads[i] # <<>>
                  => FloatEq(FreezeFrameValue(mon.requests[i].pid, mon.reads[i][1]),
                             process_pid_data(mon.requests[i].pid, mon.reads[i][1]))

\* C28: can_iso_tp_send given a payload longer than 4095 bytes returns an
\* error and writes no frame.
C28_TooLongRejected ==
    (tp_state = "returned" /\ Len(tp_data) > 4095)
        => /\ tp_ret = -1
           /\ tp_calls = 0
           /\ tp_frames = <<>>

\* C28 witness: a payload of 4096 bytes was refused
C28_Witness ==
    /\ tp_state = "returned"
    /\ Len(tp_data) = 4096
    /\ tp_ret = -1

\* C29: a request issued while a channel is open is sent over that channel:
\* it succeeds with no disconnect and no new connect.
C29_ChannelReused ==
    [][ (/\ last'.op = "obd2_send_request"
         /\ last'.reqs[1].req # NullRequest
         /\ current_channel # 0)
           => /\ last'.ret = 0
              /\ last'.reqs[1].attempts = 0
              /\ UNCHANGED <<current_channel, native_channels>> ]_vars

\* C30: obd_state.error_count counts the consecutive failed requests: a
\* request that fails adds one to it and a request that succeeds resets it.
C30_ErrorCounter ==
    [][ last'.op = "obd2_send_request"
           => IF last'.ret = 0
              THEN obd_state'.error_count = 0
              ELSE obd_state'.error_count = obd_state.error_count + 1 ]_vars

\* the code texts the loop of diag_read_dtcs makes of a payload it has read
DiagReadTexts(payload) ==
    LET env == CHOOSE e \in SendEnvs({}, {J2534_STATUS_NOERROR}, {-1}) : TRUE
        p == ParseMsgs(obd_state, Adapter, payload, Len(payload), 0, env)
    IN  [k \in 1..Len(p.dtcs) |-> p.dtcs[k].code]

\* C32: the DTC decoders apply one rule: for every Mode 03 payload read, the
\* code texts of dtc_read_current and of monitor_check_dtc are the code texts
\* diag_read_dtcs makes of the same payload.
C32_SameDecoding ==
    (dtc.op \in {"dtc_read_current", "monitor_check_dtc"} /\ dtc.ret >= 0) =>
        [k \in 1..Len(dtc.dtcs) |-> dtc.dtcs[k].code] = DiagReadTexts(dtc.payload)

\* C33: every protocol identifier a negotiation puts into obd_state.protocol
\* for a probe is one the switch of obd2_send_request encodes.
C33_CandidatesEncodable ==
    last.op \in {"obd2_protocol_init", "diag_get_system_health"} =>
        \A i \in DOMAIN last.reqs :
            FormatMessage(last.reqs[i].protocol, last.reqs[i].req) # <<>>

\* C38: the PassThru device is open at most once at a time: no call of
\* J2534_Initialize, obd2_protocol_init or diag_get_system_health opens a
\* device while an earlier one has not been closed.
C38_SingleOpen ==
    [][ native_devices' > native_devices => native_devices = 0 ]_vars

\* C39: for a multi-frame message can_iso_tp_send returns success only when
\* every frame was written; when a write fails it returns -1 and that write
\* is the last call of can_send_frame it makes: the frames that went out are
\* the first frames of the message, in order, and none after the failed one.
C39_StopOnFailure ==
    (/\ tp_state = "returned"
     /\ Len(tp_data) > 7
     /\ Len(tp_data) <= ISO_TP_MAX_LENGTH)
        => IF tp_ret = 0
           THEN /\ tp_calls = FrameCount(Len(tp_data))
                /\ Len(tp_frames) = tp_calls
           ELSE /\ tp_ret = -1
                /\ tp_calls <= FrameCount(Len(tp_data))
                /\ Len(tp_frames) = tp_calls - 1
                /\ \A j \in 2..Len(tp_frames) :
                       tp_frames[j].data[1] = 32 + ((j - 1) % 16)

\* C39 witness: the write of the first consecutive frame failed with further
\* frames still to send
C39_Witness ==
    /\ tp_state = "returned"
    /\ tp_ret = -1
    /\ tp_calls = 2
    /\ Len(tp_frames) = 1
    /\ FrameCount(Len(tp_data)) > 3

\* C37: a j1850_receive_message call that accepts a message reports a payload
\* length of at most 8 bytes and copies no more than that, whatever count the
\* native read returned.
C37_J1850LengthBounded ==
    (proto.op = "j1850_receive_message" /\ proto.ret = 0)
        => /\ proto.length[1] = 0
           /\ proto.length[2] <= J1850_MAX_LENGTH - J1850_HEADER_LENGTH
           /\ ~proto.fault
           /\ Len(proto.payload) = proto.length[2]

\* C35: a LogBuffer that log_init has set up with capacity >= 1 keeps
\* size <= capacity, head < capacity, tail < capacity and
\* head = (tail + size) mod capacity across log_write and log_read.
C35_LogRing ==
    (log_buffer.entries # <<>> /\ log_buffer.capacity >= 1)
        => /\ log_buffer.size <= log_buffer.capacity
           /\ log_buffer.head < log_buffer.capacity
           /\ log_buffer.tail < log_buffer.capacity
           /\ log_buffer.head =
                  (log_buffer.tail + log_buffer.size) % log_buffer.capacity

\* C35 witness: a full buffer whose head and tail have wrapped, after a write
\* that overwrote the oldest entry and a read
C35_Witness ==
    /\ lg.op = "log_read"
    /\ lg.ret = 0
    /\ log_buffer.capacity = 2
    /\ lg.writes > 2
    /\ log_buffer.size = 1
    /\ log_buffer.head = 1
    /\ log_buffer.tail = 0

\* the serial numbers of the retained entries, oldest first
RetainedLog(b) ==
    [k \in 1..b.size |-> b.entries[1][((b.tail + k - 1) % b.capacity) + 1].serial]

\* C36: the LogBuffer is FIFO with overwrite-oldest: the retained entries are
\* the most recent ones not yet read, in write order; with no read since
\* log_init there are min(n, capacity) of them after n writes; log_read hands
\* out the oldest retained entry, and on an empty buffer it returns -1 and
\* changes nothing.
C36_LogFifo ==
    [][ (/\ log_buffer.entries # <<>>
         /\ log_buffer.capacity >= 1
         /\ lg'.op \in {"log_write", "log_read"}
         /\ ~lg'.fault)
           => /\ lg'.reads = 0 =>
                     log_buffer'.size = IF lg'.writes < log_buffer'.capacity
                                        THEN lg'.writes ELSE log_buffer'.capacity
              /\ \A k \in 1..log_buffer'.size :
                     RetainedLog(log_buffer')[k] = lg'.writes - log_buffer'.size + k
              /\ (lg'.op = "log_read" /\ lg'.ret = 0) =>
                     /\ log_buffer.size > 0
                     /\ lg'.entry = <<[serial |-> RetainedLog(log_buffer)[1]]>>
                     /\ RetainedLog(log_buffer') = Tail(RetainedLog(log_buffer))
              /\ (lg'.op = "log_read" /\ log_buffer.size = 0) =>
                     /\ lg'.ret = -1
                     /\ log_buffer' = log_buffer ]_vars

\* C36 witness: after more writes than the capacity and no read before, all
\* retained entries were read in write order, and the next read failed
C36_Witness ==
    /\ lg.op = "log_read"
    /\ lg.ret = -1
    /\ log_buffer.capacity = 2
    /\ lg.writes = 3
    /\ lg.reads = 2
    /\ log_buffer.size = 0

\* C31: with the history holding at least 2 samples, a status query that
\* succeeds never returns the slot the monitoring task is filling, and what it
\* returns is the sample of a completed round.
C31_ReaderAvoidsWriter ==
    (/\ latest.ret = 0
     /\ ~latest.fault
     /\ latest.sample # <<>>
     /\ monitor_state.config.buffer_size >= 2)
        => /\ latest.filling # <<latest.idx>>
           /\ latest.sample[1].round \in 1..latest.newest

\* C34: once a round has completed, a status query made while monitoring runs
\* returns the sample of the most recent completed round, for every
\* buffer_size and every position of history_head.
C34_LatestIsNewest ==
    (/\ latest.ret = 0
     /\ ~latest.fault
     /\ latest.sample # <<>>
     /\ latest.filling = <<>>
     /\ latest.newest >= 1)
        => latest.sample[1].round = latest.newest

====
